---------------------------- MODULE Spec2Model ----------------------------
(***************************************************************************)
(* Durable coroutines: the runtime contract (Context, frame stack, Yield,  *)
(* Unwinding) and the code that compileFuncBody generates around a colored *)
(* procedure (prologue, dispatch, deferred pop-or-retain epilogue),        *)
(* executed on a small family of colored procedures.                       *)
(*                                                                         *)
(* Two contexts are modelled: context 1 is the coroutine of the original   *)
(* process, context 2 is a fresh context of another process that is filled *)
(* by Unmarshal from the bytes that MarshalAppend produced for context 1.  *)
(***************************************************************************)
EXTENDS Integers, Sequences, FiniteSets, TLC

\* ------------------------------------------------------------------ bounds

\* Values the caller sends into the coroutine are 1..MaxSend.
MaxSend == 2

\* Upper limit of the counter loop of procedure "C": for i := 0; i < CounterLimit; i++.
CounterLimit == 3

\* Number of elements of each array of the heap that backs slices.
ArrayLen == 2

Sends == 1..MaxSend

\* The zero value of the send type S (var zero S) and of a fresh recv.
Zero == 0

\* The original context and the context of the deserializing process.
Ctxs == {1, 2}

\* ---------------------------------------------------------- the procedures

\* The colored procedures that are compiled. Each body is the desugared
\* statement list of the source procedure:
\*   A: a1; defer DA; B(); a2; E(); a3
\*   B: defer D1; defer D2; b1; r = yield(7); b2; r = yield(8); b3
\*   C: i = 0; for ; i < CounterLimit; i++ { c1; r = yield(i) }
\*   E: r = yield(9); e1
\*   F: yield(5)
\*   G: g1; F(); g2; F(); g3
Procs == {"A", "B", "C", "E", "F", "G"}

Body(fn) ==
    CASE fn = "A" -> << [op |-> "stmt",  id |-> "a1"],
                        [op |-> "defer", id |-> "DA"],
                        [op |-> "call",  id |-> "B"],
                        [op |-> "stmt",  id |-> "a2"],
                        [op |-> "call",  id |-> "E"],
                        [op |-> "stmt",  id |-> "a3"] >>
      [] fn = "B" -> << [op |-> "defer", id |-> "D1"],
                        [op |-> "defer", id |-> "D2"],
                        [op |-> "stmt",  id |-> "b1"],
                        [op |-> "yield", id |-> "7"],
                        [op |-> "stmt",  id |-> "b2"],
                        [op |-> "yield", id |-> "8"],
                        [op |-> "stmt",  id |-> "b3"] >>
      [] fn = "C" -> << [op |-> "init",  id |-> "i"],
                        [op |-> "for",   id |-> "i"],
                        [op |-> "stmt",  id |-> "c1"],
                        [op |-> "yield", id |-> "i"],
                        [op |-> "post",  id |-> "i"] >>
      [] fn = "E" -> << [op |-> "yield", id |-> "9"],
                        [op |-> "stmt",  id |-> "e1"] >>
      [] fn = "F" -> << [op |-> "expr",  id |-> "5"] >>
      [] fn = "G" -> << [op |-> "stmt",  id |-> "g1"],
                        [op |-> "call",  id |-> "F"],
                        [op |-> "stmt",  id |-> "g2"],
                        [op |-> "call",  id |-> "F"],
                        [op |-> "stmt",  id |-> "g3"] >>

\* The entry points a coroutine may be created with.
Entrypoints == {"A", "B", "C"}

\* isExpr: the body is composed of at most one expression. The statement
\* "expr" is the expression statement `coroutine.Yield(v)`, and a call of a
\* procedure is an expression statement too.
isExpr(body) ==
    \/ Len(body) = 0
    \/ Len(body) = 1 /\ body[1].op \in {"expr", "call"}

\* The value a yield statement passes to Yield, read from the frame's locals.
YieldArg(inst, frame) ==
    CASE inst.id = "i" -> frame.i
      [] inst.id = "7" -> 7
      [] inst.id = "8" -> 8
      [] inst.id = "9" -> 9
      [] inst.id = "5" -> 5

\* A call that may yield: a call of a colored procedure or of Yield itself.
MayYield(inst) == inst.op \in {"call", "yield"}


\* The positions of a body, and the positions of its calls that may yield.
Positions(fn) == 1..Len(Body(fn))

CallSites(fn) == {q \in Positions(fn) : MayYield(Body(fn)[q])}

\* The index of the dispatch span that the call at position q begins: the
\* value stored by the `frame.ip = <span index>` that precedes the call.
SpanIndex(fn, q) == Cardinality({p \in CallSites(fn) : p <= q})

\* Where the dispatch of a procedure continues for a given frame.IP: span 0
\* is the start of the body, span k > 0 starts at the k-th call that may yield.
SpanStart(fn, ip) ==
    IF ip = 0 THEN 1
    ELSE CHOOSE q \in CallSites(fn) : SpanIndex(fn, q) = ip

\* The loop of a procedure: position of its header and of its post statement.
ForPos(fn) == CHOOSE q \in Positions(fn) : Body(fn)[q].op = "for"

PostPos(fn) == CHOOSE q \in Positions(fn) : Body(fn)[q].op = "post"

\* ------------------------------------------------------------------ state

VARIABLES
    ctx,        \* ctx[c]: the Context of coroutine c with its Stack, the position
                \* of every active procedure and the history of what it did
    Entrypoint, \* the procedure the coroutine was created with
    wire,       \* the buffer that carries a marshalled Context between processes
    serde,      \* an object graph of the heap, the bytes it is serialized to and
                \* the graph that is rebuilt from the bytes
    types,      \* the global type register
    build,      \* a run of the compiler: the program it was given, how far it
                \* got and what it wrote
    chain,      \* a buffer that a Context is appended to and read back from
    hoist,      \* a procedure that holds one statement with a header, and
                \* what a coroutine that calls it has executed
    mrange,     \* a desugared range loop over a map, and what it has executed
    srange,     \* a range loop over a slice: the statement of the source and
                \* the desugared loop, executed side by side
    labels      \* a nest of loops and switches with its branch statements,
                \* and what the desugarer made of it

vars == <<ctx, Entrypoint, wire, serde, types, build, chain, hoist, mrange, srange, labels>>

\* The state of the desugared statements that are looked at on their own.
lowering == <<mrange, srange, labels>>

\* The state that the runtime library does not touch.
tooling == <<build, chain, hoist, lowering>>

\* The state that the coroutine does not touch.
elsewhere == <<serde, types, tooling>>

\* An entry of the history of a coroutine: what happened (k), in which
\* procedure (fn) and at which position of its body (at), the name of the
\* statement or deferred function (id) and the value involved (v).
Ev(k, fn, at, id, v) == [k |-> k, fn |-> fn, at |-> at, id |-> id, v |-> v]

\* A zero-valued frame of the frame type of procedure fn.
ZeroFrame(fn) ==
    [fn |-> fn, IP |-> 0, Resume |-> FALSE, i |-> 0, r |-> 0, defers |-> <<>>]

\* The frame initializer: the procedures have no parameters, every local
\* starts at its zero value.
FrameInit(fn) == ZeroFrame(fn)

\* A Context as the coroutine factory creates it.
NewContext(m) ==
    [recv |-> Zero, send |-> Zero, done |-> FALSE, stop |-> FALSE,
     Frames |-> <<>>, FP |-> 0,
     cs |-> <<>>, mode |-> m, pval |-> "none", yval |-> Zero,
     log |-> <<>>, sends |-> <<>>, ydepth |-> 0, base |-> <<>>]

\* ---------------------------------------------------------- frame stack

\* Stack.Top: the last frame.
Top(x) == x.Frames[Len(x.Frames)]

\* Push[F]: append a zero-valued frame when the caller is on the topmost
\* frame, re-enter the retained frame above the caller otherwise.
Push(x, fn) ==
    LET fresh == x.FP = Len(x.Frames)
    IN  [x EXCEPT !.Frames = IF fresh THEN Append(@, ZeroFrame(fn)) ELSE @,
                  !.base   = IF fresh THEN Append(@, Len(x.Frames)) ELSE @,
                  !.FP     = @ + 1]

\* Pop: remove the last frame; StackUnderflow on an empty stack.
Pop(x) ==
    IF Len(x.Frames) = 0
    THEN [x EXCEPT !.mode = "panic", !.pval = "StackUnderflow"]
    ELSE [x EXCEPT !.Frames = SubSeq(@, 1, Len(@) - 1),
                   !.base   = SubSeq(@, 1, Len(@) - 1),
                   !.FP     = @ - 1,
                   !.log    = Append(@, Ev("pop", Top(x).fn, 0, "", 0))]

\* Context.Unwinding.
Unwinding(x) == Len(x.Frames) > 0 /\ Top(x).Resume

\* ------------------------------------------------------- Context.Yield

\* The active procedure that is executing, and the frame Push returned to it.
Act(x) == x.cs[Len(x.cs)]

Here(x) == x.Frames[Act(x).f]

\* What the yield statement `r = coroutine.Yield(v)` does with the value that
\* Yield returns: it is assigned to the local r and the statement is complete.
\* The expression statement `coroutine.Yield(v)` drops the value.
YieldReturns(x, v) ==
    [x EXCEPT !.Frames = IF Body(Act(x).fn)[Act(x).pc].op = "expr" THEN @
                         ELSE [@ EXCEPT ![Act(x).f].r = v],
              !.cs[Len(x.cs)].pc = @ + 1,
              !.mode = "run",
              !.log = Append(@, Ev("ret", Act(x).fn, Act(x).pc, "", v))]

\* Yield whose first statement raises the unwind sentinel on a stopped coroutine.
YieldEntryUnwinds(x) ==
    IF x.stop
    THEN [x EXCEPT !.mode = "panic", !.pval = "unwind"]
    ELSE [x EXCEPT !.mode = "yield56"]

\* Yield, first statement: a stopped coroutine cannot yield.
YieldEntry(x) ==
    IF x.stop
    THEN [x EXCEPT !.mode = "panic", !.pval = "stopped"]
    ELSE [x EXCEPT !.mode = "yield56"]

\* Yield that forgets `c.send = zero` when it suspends.
YieldBodyKeepsSend(x) ==
    LET n == Len(x.Frames)
    IN  IF x.Frames[n].Resume
        THEN LET y == [x EXCEPT !.Frames[n].Resume = FALSE]
             IN  IF y.stop
                 THEN [y EXCEPT !.mode = "panic", !.pval = "unwind"]
                 ELSE YieldReturns(y, y.send)
        ELSE [x EXCEPT !.Frames[n].Resume = TRUE,
                       !.recv = x.yval,
                       !.mode = "panic",
                       !.pval = "unwind",
                       !.ydepth = Len(x.cs),
                       !.log = Append(@, Ev("yield", Act(x).fn, Act(x).pc, "", x.yval))]

\* Yield that forgets `frame.Resume = false` when it is resumed.
YieldBodyKeepsResume(x) ==
    LET n == Len(x.Frames)
    IN  IF x.Frames[n].Resume
        THEN IF x.stop
             THEN [x EXCEPT !.mode = "panic", !.pval = "unwind"]
             ELSE YieldReturns(x, x.send)
        ELSE [x EXCEPT !.Frames[n].Resume = TRUE,
                       !.send = Zero,
                       !.recv = x.yval,
                       !.mode = "panic",
                       !.pval = "unwind",
                       !.ydepth = Len(x.cs),
                       !.log = Append(@, Ev("yield", Act(x).fn, Act(x).pc, "", x.yval))]

\* Yield that marks every frame of the stack when it suspends.
YieldBodyMarksAll(x) ==
    LET n == Len(x.Frames)
    IN  IF x.Frames[n].Resume
        THEN LET y == [x EXCEPT !.Frames[n].Resume = FALSE]
             IN  IF y.stop
                 THEN [y EXCEPT !.mode = "panic", !.pval = "unwind"]
                 ELSE YieldReturns(y, y.send)
        ELSE [x EXCEPT !.Frames = [k \in 1..n |-> [x.Frames[k] EXCEPT !.Resume = TRUE]],
                       !.send = Zero,
                       !.recv = x.yval,
                       !.mode = "panic",
                       !.pval = "unwind",
                       !.ydepth = Len(x.cs),
                       !.log = Append(@, Ev("yield", Act(x).fn, Act(x).pc, "", x.yval))]

\* Yield, from `frame := c.Top()` on.
YieldBody(x) ==
    LET n == Len(x.Frames)
    IN  IF n = 0
        THEN [x EXCEPT !.mode = "panic", !.pval = "index out of range"]
        ELSE IF x.Frames[n].Resume
        THEN LET y == [x EXCEPT !.Frames[n].Resume = FALSE]
             IN  IF y.stop
                 THEN [y EXCEPT !.mode = "panic", !.pval = "unwind"]
                 ELSE YieldReturns(y, y.send)
        ELSE [x EXCEPT !.Frames[n].Resume = TRUE,
                       !.send = Zero,
                       !.recv = x.yval,
                       !.mode = "panic",
                       !.pval = "unwind",
                       !.ydepth = Len(x.cs),
                       !.log = Append(@, Ev("yield", Act(x).fn, Act(x).pc, "", x.yval))]

\* ------------------------------------------------ the generated procedure

\* A prologue that assigns the frame initializer on every entry.
PrologueAlwaysInits(x) ==
    LET fn == Act(x).fn
        y  == Push(x, fn)
        f  == y.FP
        z  == [y EXCEPT !.Frames[f] = FrameInit(fn)]
    IN  [z EXCEPT !.cs[Len(x.cs)] =
                     [fn |-> fn, pc |-> SpanStart(fn, z.Frames[f].IP), f |-> f]]

\* The prologue of a compiled procedure: Push, the frame initializer when
\* IP is 0, and the dispatch to the span that frame.IP designates. The
\* deferred epilogue is installed here and runs when the procedure exits.
PrologueOf(x) ==
    LET fn == Act(x).fn
        y  == Push(x, fn)
        f  == y.FP
        z  == IF y.Frames[f].IP = 0
              THEN [y EXCEPT !.Frames[f] = FrameInit(fn)]
              ELSE y
    IN  [z EXCEPT !.cs[Len(x.cs)] =
                     [fn |-> fn, pc |-> SpanStart(fn, z.Frames[f].IP), f |-> f]]

\* The deferred functions of the frame run in registration order.
RunDeferredInOrder(x, f) ==
    LET d == x.Frames[f].defers
        n == Len(d)
    IN  [x EXCEPT !.log = @ \o [k \in 1..n |-> Ev("run", x.Frames[f].fn, 0, d[k], 0)]]

\* The deferred calls of the epilogue closure in the order they run: the
\* frame's deferred functions, last registered first, then Pop.
RunDeferred(x, f) ==
    LET d == x.Frames[f].defers
        n == Len(d)
    IN  [x EXCEPT !.log = @ \o [k \in 1..n |-> Ev("run", x.Frames[f].fn, 0, d[n + 1 - k], 0)]]

\* An epilogue that pops the frame whether or not the coroutine is unwinding.
EpilogueAlwaysPops(x) == Pop(RunDeferred(x, Act(x).f))

\* The epilogue closure: if !_c.Unwinding() { defer Pop; for f in _defers { defer f() } }
Epilogue(x) ==
    IF ~Unwinding(x) THEN Pop(RunDeferred(x, Act(x).f)) ELSE x

\* A plain statement of the source: an observable side effect.
StmtOf(x) ==
    [x EXCEPT !.log = Append(@, Ev("stmt", Act(x).fn, Act(x).pc, Body(Act(x).fn)[Act(x).pc].id, Here(x).i)),
              !.cs[Len(x.cs)].pc = @ + 1]

\* defer f() rewritten to _defers = append(_defers, f).
DeferOf(x) ==
    [x EXCEPT !.Frames[Act(x).f].defers = Append(@, Body(Act(x).fn)[Act(x).pc].id),
              !.log = Append(@, Ev("defer", Act(x).fn, Act(x).pc, Body(Act(x).fn)[Act(x).pc].id, 0)),
              !.cs[Len(x.cs)].pc = @ + 1]

\* The statements of the desugared loop: the hoisted init, the loop header
\* with its condition, and the post statement with the jump back.
LoopOf(x) ==
    LET fn == Act(x).fn
        op == Body(fn)[Act(x).pc].op
    IN  CASE op = "init" ->
               [x EXCEPT !.Frames[Act(x).f].i = 0, !.cs[Len(x.cs)].pc = @ + 1]
          [] op = "for" ->
               [x EXCEPT !.cs[Len(x.cs)].pc =
                     IF Here(x).i < CounterLimit THEN @ + 1 ELSE PostPos(fn) + 1]
          [] op = "post" ->
               [x EXCEPT !.Frames[Act(x).f].i = @ + 1, !.cs[Len(x.cs)].pc = ForPos(fn)]

\* A call of a colored procedure: frame.IP = <span of the call>, then the call.
CallOf(x) ==
    LET a == Act(x)
    IN  [x EXCEPT !.Frames[a.f].IP = SpanIndex(a.fn, a.pc),
                  !.cs = Append(@, [fn |-> Body(a.fn)[a.pc].id, pc |-> 0, f |-> 0])]

\* A call of Yield: frame.IP = <span of the call>, then Yield is entered.
YieldCallOf(x) ==
    LET a == Act(x)
    IN  [x EXCEPT !.Frames[a.f].IP = SpanIndex(a.fn, a.pc),
                  !.yval = YieldArg(Body(a.fn)[a.pc], Here(x)),
                  !.mode = "yield53"]

\* The expression statement of a body that was left as it is: Yield is
\* entered, and no frame.IP is stored in front of the call.
ExprOf(x) ==
    [x EXCEPT !.yval = YieldArg(Body(Act(x).fn)[Act(x).pc], ZeroFrame(Act(x).fn)),
              !.mode = "yield53"]

\* The procedure returns: its epilogue runs, and the call statement of its
\* caller is complete. A body that was left as it is has no epilogue.
ReturnOf(x) ==
    LET y == IF isExpr(Body(Act(x).fn)) THEN x ELSE Epilogue(x)
        n == Len(x.cs)
    IN  [y EXCEPT !.cs = IF n > 1 /\ y.mode = "run"
                         THEN [SubSeq(@, 1, n - 1) EXCEPT ![n - 1].pc = @ + 1]
                         ELSE SubSeq(@, 1, n - 1)]

\* A panic leaves the procedure: its epilogue runs, the panic goes on.
UnwindOf(x) ==
    LET y == IF isExpr(Body(Act(x).fn)) THEN x ELSE Epilogue(x)
    IN  [y EXCEPT !.cs = SubSeq(@, 1, Len(@) - 1)]

\* ------------------------------------------------------------ wire format

\* Little-endian fixed-width unsigned integer of 8 bytes.
U64(v) ==
    LET RECURSIVE shr(_, _)
        shr(w, k) == IF k = 0 THEN w ELSE shr(w \div 256, k - 1)
    IN  [k \in 1..8 |-> shr(v, k - 1) % 256]

\* The integer that the 8 bytes of b from position p on encode.
ReadU64(b, p) ==
    LET RECURSIVE sum(_)
        sum(k) == IF k = 8 THEN 0 ELSE b[p + k] + 256 * sum(k + 1)
    IN  sum(0)

\* A boolean is one byte.
BoolByte(v) == IF v THEN <<1>> ELSE <<0>>

\* The type id of a frame type, and the id under which a deferred function
\* value is written.
TypeId(fn) ==
    CASE fn = "A" -> 0 [] fn = "B" -> 1 [] fn = "C" -> 2 [] fn = "E" -> 3
      [] fn = "F" -> 4 [] fn = "G" -> 5

TypeOfId(t) == CHOOSE fn \in Procs : TypeId(fn) = t

FuncId(d) == CASE d = "DA" -> 1 [] d = "D1" -> 2 [] d = "D2" -> 3

FuncOfId(t) == CHOOSE d \in {"DA", "D1", "D2"} : FuncId(d) = t

\* The concatenation of the sequences of a sequence of sequences.
RECURSIVE Flatten(_)
Flatten(ss) == IF ss = <<>> THEN <<>> ELSE Head(ss) \o Flatten(Tail(ss))

\* A frame: (type-id, ip, resume, deferred-count, locals); the locals are the
\* fields of the frame struct in declaration order, the _defers list last.
SerializeFrame(f) ==
    <<TypeId(f.fn)>> \o U64(f.IP) \o BoolByte(f.Resume) \o U64(Len(f.defers))
        \o U64(f.i) \o U64(f.r)
        \o Flatten([k \in 1..Len(f.defers) |-> U64(FuncId(f.defers[k]))])

\* serde.Serialize of a Stack appended to b: (count, frame 0, frame 1, ...).
Serialize(frames, b) ==
    b \o U64(Len(frames)) \o Flatten([k \in 1..Len(frames) |-> SerializeFrame(frames[k])])

\* The frame that starts at position p of b, and the position after it.
DeserializeFrame(b, p) ==
    LET nd == ReadU64(b, p + 10)
    IN  [frame |-> [fn     |-> TypeOfId(b[p]),
                    IP     |-> ReadU64(b, p + 1),
                    Resume |-> b[p + 9] = 1,
                    i      |-> ReadU64(b, p + 18),
                    r      |-> ReadU64(b, p + 26),
                    defers |-> [k \in 1..nd |-> FuncOfId(ReadU64(b, p + 34 + 8 * (k - 1)))]],
         next  |-> p + 34 + 8 * nd]

\* n frames from position p of b on: the frames and the position after them.
RECURSIVE DeserializeFrames(_, _, _)
DeserializeFrames(b, p, n) ==
    IF n = 0 THEN [frames |-> <<>>, next |-> p]
    ELSE LET one  == DeserializeFrame(b, p)
             rest == DeserializeFrames(b, one.next, n - 1)
         IN  [frames |-> <<one.frame>> \o rest.frames, next |-> rest.next]

\* serde.Deserialize: the Stack at the head of b and the rest of b.
Deserialize(b) ==
    LET got == DeserializeFrames(b, 9, ReadU64(b, 1))
    IN  [stack |-> got.frames, rest |-> SubSeq(b, got.next, Len(b))]

\* A MarshalAppend that drops what the buffer holds.
MarshalAppendFresh(x, b) == Serialize(x.Frames, <<>>)

\* Context.MarshalAppend: the Stack is serialized, the heap is ignored.
MarshalAppend(x, b) == Serialize(x.Frames, b)

\* An Unmarshal that reads the bytes and leaves the Stack as it was.
UnmarshalKeepsStack(x, b) ==
    LET got == Deserialize(b)
    IN  [c |-> x, sn |-> Len(b) - Len(got.rest)]

\* Context.Unmarshal: the Stack is replaced, the result is the number of
\* bytes that were read.
Unmarshal(x, b) ==
    LET got == Deserialize(b)
    IN  [c |-> [x EXCEPT !.Frames = got.stack,
                         !.base = [k \in 1..Len(got.stack) |-> k - 1]],
         sn |-> Len(b) - Len(got.rest)]

\* ----------------------------------------------------------- object graphs

\* The heap of the serializing process: raw memory addresses. Two cells that
\* pointers point at, each with a value and a pointer to a cell, and two
\* arrays of ArrayLen elements that back the slices. A slice is the address
\* of its first element, its length and its capacity.
Nil == 0

CellAddrs == {1, 2}

ArrayAddrs == {10, 20}

\* The array s of the scenario of the shared backing array, of length 5 and
\* capacity 5.
ScenarioArray == 30

ScenarioLen == 5

Arrays == ArrayAddrs \cup {ScenarioArray}

\* The number of elements of the array at address a.
LenOf(a) == IF a = ScenarioArray THEN ScenarioLen ELSE ArrayLen

Addrs == CellAddrs \cup Arrays

\* The content of the memory word at an address.
ValueAt(addr) == 100 + addr

\* The array that the element at address ptr belongs to.
ArrayOf(ptr) == CHOOSE a \in Arrays : ptr \in a..(a + LenOf(a) - 1)

Pointers == {Nil} \cup CellAddrs

Slices ==
    {[ptr |-> Nil, len |-> 0, cap |-> 0]} \cup
    {[ptr |-> a + st, len |-> l, cap |-> c] :
        a \in ArrayAddrs, st \in 0..(ArrayLen - 1), l \in 0..ArrayLen, c \in 1..ArrayLen}

\* The roots: two pointers and two slices, each slice within its array.
Roots ==
    {r \in [p1 : Pointers, p2 : Pointers, s1 : Slices, s2 : Slices] :
        \A s \in {r.s1, r.s2} :
            s.ptr # Nil => (s.len <= s.cap /\ s.ptr + s.cap <= ArrayOf(s.ptr) + LenOf(ArrayOf(s.ptr)))}

\* The write cursor: the bytes written and the map from the address of an
\* object to the offset it was written at (0: not written).
NewWriter == [b |-> <<>>, at |-> [a \in Addrs |-> 0]]

\* Pointer: tag 0 null, tag 1 inline followed by the pointee, tag 2
\* back-reference followed by the offset the pointee was written at. The
\* pointee is recorded in the map before its own pointer is followed.
RECURSIVE SerializePointer(_, _, _)
SerializePointer(w, p, next) ==
    IF p = Nil THEN [w EXCEPT !.b = @ \o <<0>>]
    ELSE IF w.at[p] # 0 THEN [w EXCEPT !.b = @ \o <<2>> \o U64(w.at[p])]
    ELSE SerializePointer([b  |-> w.b \o <<1>> \o U64(ValueAt(p)),
                           at |-> [w.at EXCEPT ![p] = Len(w.b) + 2]],
                          next[p], next)

\* A reference to a backing array that never consults the map of the
\* addresses that were written: the array is written inline every time.
SerializeArrayRefInline(w, ptr) ==
    LET a == ArrayOf(ptr)
    IN  [b  |-> w.b \o <<1>> \o U64(LenOf(a))
                   \o Flatten([i \in 1..LenOf(a) |-> U64(ValueAt(a + i - 1))])
                   \o U64(ptr - a),
         at |-> [w.at EXCEPT ![a] = Len(w.b) + 2]]

\* The reference of a slice to its backing array: the array inline, all of
\* its elements, when it was not written yet, a back-reference to its offset
\* otherwise, and the position in the array at which the slice starts.
SerializeArrayRef(w, ptr) ==
    LET a  == ArrayOf(ptr)
        w1 == IF w.at[a] # 0
              THEN [w EXCEPT !.b = @ \o <<2>> \o U64(w.at[a])]
              ELSE [b  |-> w.b \o <<1>> \o U64(LenOf(a))
                              \o Flatten([i \in 1..LenOf(a) |-> U64(ValueAt(a + i - 1))]),
                    at |-> [w.at EXCEPT ![a] = Len(w.b) + 2]]
    IN  [w1 EXCEPT !.b = @ \o U64(ptr - a)]

\* Slice: (backing-array-ref, length, capacity).
SerializeSlice(w, s) ==
    LET w1 == IF s.ptr = Nil THEN [w EXCEPT !.b = @ \o <<0>>]
              ELSE SerializeArrayRef(w, s.ptr)
    IN  [w1 EXCEPT !.b = @ \o U64(s.len) \o U64(s.cap)]

\* The root struct: its fields in declaration order.
SerializeGraph(root, next) ==
    LET w1 == SerializePointer(NewWriter, root.p1, next)
        w2 == SerializePointer(w1, root.p2, next)
        w3 == SerializeSlice(w2, root.s1)
    IN  SerializeSlice(w3, root.s2).b

\* The heap of the deserializing process: the k-th cell and the k-th array
\* that are allocated.
NewCell(k) == 30 + k

NewArray(k) == 40 + 10 * k

NewWords ==
    {NewCell(k) : k \in 1..Cardinality(CellAddrs)} \cup
    {NewArray(k) + i : k \in 1..Cardinality(Arrays), i \in 0..(NewArray(2) - NewArray(1) - 1)}

\* The read cursor: the position in the bytes, the map from an offset to the
\* object allocated for it (Nil: none), the number of cells and arrays
\* allocated, and the memory that was filled.
NewReader(b) ==
    [p     |-> 1,
     alloc |-> [o \in 1..Len(b) |-> Nil],
     nc    |-> 0,
     na    |-> 0,
     val   |-> [a \in NewWords |-> 0],
     next  |-> [a \in {NewCell(k) : k \in 1..Cardinality(CellAddrs)} |-> Nil]]

\* A pointer at the cursor: null, a pointee that is allocated once for its
\* offset and then filled, or a back-reference resolved to the allocation of
\* the offset.
RECURSIVE DeserializePointer(_, _)
DeserializePointer(b, r) ==
    IF b[r.p] = 0 THEN [r |-> [r EXCEPT !.p = @ + 1], ptr |-> Nil]
    ELSE IF b[r.p] = 2
    THEN [r |-> [r EXCEPT !.p = @ + 9], ptr |-> r.alloc[ReadU64(b, r.p + 1)]]
    ELSE LET off == r.p + 1
             new == NewCell(r.nc + 1)
             sub == DeserializePointer(b, [r EXCEPT !.p = off + 8,
                                                    !.alloc[off] = new,
                                                    !.nc = @ + 1,
                                                    !.val[new] = ReadU64(b, off)])
         IN  [r |-> [sub.r EXCEPT !.next[new] = sub.ptr], ptr |-> new]

\* A reference to a backing array that yields the address of the first element
\* of the array, whatever the position at which the slice starts.
DeserializeArrayRefAtStart(b, r) ==
    IF b[r.p] = 2
    THEN [r   |-> [r EXCEPT !.p = @ + 17],
          ptr |-> r.alloc[ReadU64(b, r.p + 1)]]
    ELSE LET off == r.p + 1
             n   == ReadU64(b, off)
             new == NewArray(r.na + 1)
         IN  [r   |-> [r EXCEPT !.p = off + 8 + 8 * n + 8,
                                !.alloc[off] = new,
                                !.na = @ + 1,
                                !.val = [a \in NewWords |->
                                            IF a \in new..(new + n - 1)
                                            THEN ReadU64(b, off + 8 + 8 * (a - new))
                                            ELSE @[a]]],
              ptr |-> new]

\* The reference to a backing array at the cursor: the address of the element
\* of the array, allocated once for its offset, at which the slice starts.
DeserializeArrayRef(b, r) ==
    IF b[r.p] = 2
    THEN [r   |-> [r EXCEPT !.p = @ + 17],
          ptr |-> r.alloc[ReadU64(b, r.p + 1)] + ReadU64(b, r.p + 9)]
    ELSE LET off == r.p + 1
             n   == ReadU64(b, off)
             new == NewArray(r.na + 1)
         IN  [r   |-> [r EXCEPT !.p = off + 8 + 8 * n + 8,
                                !.alloc[off] = new,
                                !.na = @ + 1,
                                !.val = [a \in NewWords |->
                                            IF a \in new..(new + n - 1)
                                            THEN ReadU64(b, off + 8 + 8 * (a - new))
                                            ELSE @[a]]],
              ptr |-> new + ReadU64(b, off + 8 + 8 * n)]

\* A slice at the cursor.
DeserializeSlice(b, r) ==
    LET ref == IF b[r.p] = 0 THEN [r |-> [r EXCEPT !.p = @ + 1], ptr |-> Nil]
               ELSE DeserializeArrayRef(b, r)
    IN  [r |-> [ref.r EXCEPT !.p = @ + 16],
         s |-> [ptr |-> ref.ptr,
                len |-> ReadU64(b, ref.r.p),
                cap |-> ReadU64(b, ref.r.p + 8)]]

\* The root struct, and the memory it refers to.
DeserializeGraph(b) ==
    LET p1 == DeserializePointer(b, NewReader(b))
        p2 == DeserializePointer(b, p1.r)
        s1 == DeserializeSlice(b, p2.r)
        s2 == DeserializeSlice(b, s1.r)
    IN  [root |-> [p1 |-> p1.ptr, p2 |-> p2.ptr, s1 |-> s1.s, s2 |-> s2.s],
         val  |-> s2.r.val,
         next |-> s2.r.next,
         sn   |-> s2.r.p - 1]

\* No object graph: the coroutine model does not use the heap.
NilRoot ==
    [p1 |-> Nil, p2 |-> Nil,
     s1 |-> [ptr |-> Nil, len |-> 0, cap |-> 0],
     s2 |-> [ptr |-> Nil, len |-> 0, cap |-> 0]]

NoGraph ==
    [phase |-> "off",
     root  |-> NilRoot,
     next  |-> [a \in CellAddrs |-> Nil],
     bytes |-> <<>>,
     out   |-> [root |-> NilRoot,
                val  |-> NewReader(<<>>).val,
                next |-> NewReader(<<>>).next,
                sn   |-> 0]]

\* ----------------------------------------------------------- type register

\* The types that are registered.
Types == {"T1", "T2", "T3"}

\* Function values: the nil function, and the functions that callers pass as
\* serializer and deserializer.
NilFunc == [kind |-> "nil"]

Func(name) == [kind |-> "func", name |-> name]

Callbacks == {NilFunc, Func("f"), Func("g")}

\* newTypemap: no custom type, no serde. panic is what the last call of
\* Register panicked with, and last is that call.
newTypemap ==
    [custom |-> <<>>, serdes |-> <<>>, panic |-> "none",
     last |-> [t |-> "", ser |-> NilFunc, des |-> NilFunc]]

\* The closure that registerSerde builds around a callback of the caller: a
\* function value that is not nil, whatever the callback is.
Closure(f) == [kind |-> "closure", calls |-> f]

\* An attach that gives a type a new id every time it is registered.
attachReassigns(m, t, ser, des) ==
    IF ser = NilFunc \/ des = NilFunc
    THEN [m EXCEPT !.panic = "both serializer and deserializer need to be provided"]
    ELSE [custom |-> IF Len(m.custom) < Cardinality(Types) THEN Append(m.custom, t)
                     ELSE m.custom,
          serdes |-> [x \in DOMAIN m.serdes \cup {t} |->
                         IF x = t THEN [id |-> Len(m.custom), ser |-> ser, des |-> des]
                         ELSE m.serdes[x]],
          panic  |-> "none",
          last   |-> m.last]

\* typemap.attach.
attach(m, t, ser, des) ==
    IF ser = NilFunc \/ des = NilFunc
    THEN [m EXCEPT !.panic = "both serializer and deserializer need to be provided"]
    ELSE LET exists == t \in DOMAIN m.serdes
             id     == IF exists THEN m.serdes[t].id ELSE Len(m.custom)
         IN  [custom |-> IF exists THEN m.custom ELSE Append(m.custom, t),
              serdes |-> [x \in DOMAIN m.serdes \cup {t} |->
                             IF x = t THEN [id |-> id, ser |-> ser, des |-> des]
                             ELSE m.serdes[x]],
              panic  |-> "none",
              last   |-> m.last]

\* registerSerde: the callbacks are wrapped, the closures are attached.
registerSerde(tm, t, serializer, deserializer) ==
    attach(tm, t, Closure(serializer), Closure(deserializer))

\* typemap.serdeOf.
serdeOf(m, x) ==
    IF x \in DOMAIN m.serdes
    THEN [s |-> m.serdes[x], ok |-> TRUE]
    ELSE [s |-> [id |-> 0, ser |-> NilFunc, des |-> NilFunc], ok |-> FALSE]

\* ------------------------------------------------------- appended buffers

\* The bytes that a buffer holds before a Context is appended to it, and the
\* bytes that follow a marshalled Context in the buffer it is read from.
Prefixes == {<<>>, <<2, 0>>}

Trailers == {<<>>, <<0, 255>>}

\* No Context was appended.
NoChain ==
    [phase |-> "none", prefix |-> <<>>, bytes |-> <<>>, frames |-> <<>>,
     trailer |-> <<>>, sn |-> 0, target |-> 0]

\* ------------------------------------------------- statements with a header

\* The statements that have an init statement in their header, and the
\* procedure that is compiled:
\*   H: <kind> init; cond { b1; r = yield(); b2 }
HeaderKinds == {"if", "for", "switch", "typeswitch"}

HeaderStmts == {[kind |-> k, init |-> i] : k \in HeaderKinds, i \in {"none", "init"}}

\* The iterations of the loop and the calls of the procedure.
MaxIter == 2

MaxCalls == 2
\* The executions of the body of a lowered loop that are followed.
MaxRuns == 4

\* A desugarer that leaves the init statement in the header.
desugarHeaderInPlace(s) ==
    [block |-> FALSE, list |-> <<>>,
     stmt |-> [kind |-> s.kind, init |-> s.init,
               label |-> IF s.kind = "if" THEN "" ELSE "_l0"]]

\* The desugarer on an if, a for, a switch or a type switch: the statement is
\* built again without its init, under a new label when it is not an if, and
\* put after the init in a block when there is one.
desugarHeader(s) ==
    LET stmt == [kind |-> s.kind, init |-> "none",
                 label |-> IF s.kind = "if" THEN "" ELSE "_l0"]
    IN  IF s.init # "none"
        THEN [block |-> TRUE, list |-> <<s.init>>, stmt |-> stmt]
        ELSE [block |-> FALSE, list |-> <<>>, stmt |-> stmt]

\* No procedure was compiled.
NoHoist ==
    [src |-> [kind |-> "if", init |-> "none"],
     tree |-> [block |-> FALSE, list |-> <<>>,
               stmt |-> [kind |-> "if", init |-> "none", label |-> ""]],
     mode |-> "off", pc |-> "none", IP |-> 0, resuming |-> FALSE,
     iter |-> 0, calls |-> 0, log |-> <<>>]

\* The procedure is compiled from its source.
Compiled(s) == [NoHoist EXCEPT !.src = s, !.tree = desugarHeader(s), !.mode = "new"]

\* ------------------------------------------------------- range over a map

\* No loop over a map is executed.
NoMapRange ==
    [pc |-> "off", mode |-> "off", entry |-> <<>>, m |-> <<>>, keys |-> <<>>,
     collected |-> <<>>, i |-> 0, k |-> 0, v |-> 0, resumes |-> 0, log |-> <<>>]

\* The keys that the map may hold when the loop is entered, and the keys that
\* the body may add.
MapKeys == {1, 2, 3}

LateKeys == {4}

\* The map that holds the keys of a set, each with its first value.
MapOf(S) == [k \in S |-> 10 + k]

\* What the body does to the map: nothing, delete(m, k), or m[k] = 20 + k.
MapOps ==
    {[op |-> "none", k |-> 0]} \cup
    {[op |-> o, k |-> k] : o \in {"delete", "store"}, k \in MapKeys \cup LateKeys}

MapAfter(m, w) ==
    CASE w.op = "none"   -> m
      [] w.op = "delete" -> [k \in DOMAIN m \ {w.k} |-> m[k]]
      [] w.op = "store"  -> [k \in DOMAIN m \cup {w.k} |-> IF k = w.k THEN 20 + k ELSE m[k]]

\* The orders in which the keys of a map may be met by a range over it.
Orders(m) ==
    {s \in [1..Cardinality(DOMAIN m) -> DOMAIN m] :
        \A a, b \in DOMAIN s : a # b => s[a] # s[b]}

\* An index expression that finds every key.
MapIndexAlways(m, k) == [v |-> IF k \in DOMAIN m THEN m[k] ELSE 0, ok |-> TRUE]

\* mapValue, ok := _x[mapKey]
MapIndex(m, k) == [v |-> IF k \in DOMAIN m THEN m[k] ELSE 0, ok |-> k \in DOMAIN m]

\* ----------------------------------------------------- range over a slice

\* No loop over a slice is executed.
\*   for i, v := range x { <body> }      the body does not yield
\* A statement of the body is one of
\*   emit      emit(i, v)
\*   assign    i = n
\*   continue  if i == n { continue }
\*   break     if i == n { break }
RangeElems == {7, 8}
RangeSlices == UNION {[1..n -> RangeElems] : n \in 0..ArrayLen}
BodyOps ==
    {[op |-> "emit", n |-> 0]} \cup
    {[op |-> "assign", n |-> n] : n \in {0, 9}} \cup
    {[op |-> o, n |-> n] : o \in {"continue", "break"}, n \in {0, 1}}
RangeBodies == UNION {[1..n -> BodyOps] : n \in 1..2}

\* The body of the source from statement p on, with the key k and the value
\* v: what it emits, the key it leaves, and how it is left.
RECURSIVE RunBody(_, _, _, _, _)
RunBody(body, p, k, v, log) ==
    IF p > Len(body) THEN [log |-> log, k |-> k, exit |-> "next"]
    ELSE LET s == body[p]
         IN  CASE s.op = "emit" -> RunBody(body, p + 1, k, v, Append(log, <<k, v>>))
               [] s.op = "assign" -> RunBody(body, p + 1, s.n, v, log)
               [] s.op = "continue" ->
                    IF k = s.n THEN [log |-> log, k |-> k, exit |-> "next"]
                    ELSE RunBody(body, p + 1, k, v, log)
               [] s.op = "break" ->
                    IF k = s.n THEN [log |-> log, k |-> k, exit |-> "break"]
                    ELSE RunBody(body, p + 1, k, v, log)

\* The range statement of the source: the language evaluates x once and
\* assigns the key and the value of each iteration from a counter of its own.
RECURSIVE RangeFrom(_, _, _, _)
RangeFrom(x, body, h, log) ==
    IF h >= Len(x) THEN log
    ELSE LET r == RunBody(body, 1, h, x[h + 1], log)
         IN  IF r.exit = "break" THEN r.log ELSE RangeFrom(x, body, h + 1, r.log)

rangeStmt(x, body) == RangeFrom(x, body, 0, <<>>)

NoSliceRange ==
    [pc |-> "off", x |-> <<>>, body |-> <<>>, _x |-> <<>>, i |-> 0, v |-> 0,
     p |-> 0, runs |-> 0, log |-> <<>>]

\* ------------------------------------------------------- generated labels

\* No statement is desugared.
\* A statement of the source is a nest of statements, the outermost first.
\* A level is
\*   L: for ... { <branch>; <the next level> }        and the same with a
\* range over a slice, a switch, a type switch or an if statement; the
\* branch statement is optional, and so is the user label L.
NestKinds == {"for", "range", "switch", "typeswitch", "if"}
LoopKinds == {"for", "range"}
Depths == 1..3
UserLabelOf(j) == <<"L1", "L2", "L3">>[j]
LabelName(n) == <<"_l0", "_l1", "_l2">>[n + 1]
NoBranch == [tok |-> "none", label |-> ""]
BranchStmts(j) ==
    {NoBranch} \cup
    {[tok |-> t, label |-> l] : t \in {"break", "continue"},
                                 l \in {""} \cup {UserLabelOf(i) : i \in 1..j}}
NestLevels(j) == [kind : NestKinds, br : BranchStmts(j)]

\* A level has a user label when a branch statement names it: the language
\* rejects a label that is defined and not used.
HasUserLabel(prog, i) == \E j \in i..Len(prog) : prog[j].br.label = UserLabelOf(i)

\* The statement a branch statement of the source designates, by the rules
\* of the language: 0 when there is none.
Innermost(S) == IF S = {} THEN 0 ELSE CHOOSE i \in S : \A k \in S : k <= i
TargetOf(prog, j) ==
    LET b == prog[j].br
        named == {i \in 1..j : UserLabelOf(i) = b.label /\ prog[i].kind # "if"
                                /\ (b.tok = "continue" => prog[i].kind \in LoopKinds)}
    IN  CASE b.label # "" -> Innermost(named)
          [] b.tok = "break" -> Innermost({i \in 1..j : prog[i].kind # "if"})
          [] b.tok = "continue" -> Innermost({i \in 1..j : prog[i].kind \in LoopKinds})
          [] OTHER -> 0

\* The statements the type checker accepts.
NestStmts ==
    {prog \in UNION {[1..1 -> NestLevels(1)]} \cup
              {<<a, b>> : a \in NestLevels(1), b \in NestLevels(2)} \cup
              {<<a, b, c>> : a \in NestLevels(1), b \in NestLevels(2), c \in NestLevels(3)} :
        \A j \in 1..Len(prog) : prog[j].br.tok # "none" => TargetOf(prog, j) # 0}

newDesugarer == [labels |-> 0, unusedLabels |-> {}, userLabels |-> <<>>, panic |-> ""]

newLabel(d) ==
    [d EXCEPT !.labels = @ + 1, !.unusedLabels = @ \cup {LabelName(d.labels)}]

addUserLabel(d, userLabel, replacement) ==
    [d EXCEPT !.userLabels =
        [u \in DOMAIN @ \cup {userLabel} |-> IF u = userLabel THEN replacement ELSE @[u]]]

getUserLabel(d, userLabel) ==
    IF userLabel \in DOMAIN d.userLabels THEN d.userLabels[userLabel] ELSE ""

\* A desugarer that does not record the use of a label.
useLabelNever(d, label) == d

useLabel(d, label) == [d EXCEPT !.unusedLabels = @ \ {label}]

\* case *ast.BranchStmt
desugarBranch(s, breakTo, continueTo, d) ==
    CASE s.tok = "none" -> [stmt |-> s, d |-> d]
      [] s.label # "" ->
           LET label == getUserLabel(d, s.label)
           IN  IF label = "" THEN [stmt |-> s, d |-> [d EXCEPT !.panic = "label not found"]]
               ELSE [stmt |-> [tok |-> s.tok, label |-> label], d |-> useLabel(d, label)]
      [] s.tok = "break" ->
           [stmt |-> [tok |-> "break", label |-> breakTo], d |-> useLabel(d, breakTo)]
      [] s.tok = "continue" ->
           [stmt |-> [tok |-> "continue", label |-> continueTo], d |-> useLabel(d, continueTo)]

\* desugarer.desugar on the levels from j on: a loop and a switch get a new
\* label, which stands for the user's, and the if statement gets none.
RECURSIVE desugarNest(_, _, _, _, _)
desugarNest(prog, j, breakTo, continueTo, d) ==
    IF j > Len(prog) THEN [out |-> <<>>, d |-> d]
    ELSE LET s == prog[j]
             labelled == s.kind # "if"
             l == LabelName(d.labels)
             d1 == IF labelled THEN newLabel(d) ELSE d
             d2 == IF labelled /\ HasUserLabel(prog, j) THEN addUserLabel(d1, UserLabelOf(j), l) ELSE d1
             bt == IF labelled THEN l ELSE breakTo
             ct == IF s.kind \in LoopKinds THEN l ELSE continueTo
             b == desugarBranch(s.br, bt, ct, d2)
             rest == desugarNest(prog, j + 1, bt, ct, b.d)
         IN  [out |-> <<[kind |-> IF s.kind = "range" THEN "for" ELSE s.kind,
                         label |-> IF labelled THEN l ELSE "",
                         br |-> b.stmt]>> \o rest.out,
              d |-> rest.d]

isUnusedLabel(d, label) == label \in d.unusedLabels

\* The second pass: a labeled statement with an unused label is replaced by
\* its statement.
removeUnused(out, d) ==
    [j \in DOMAIN out |->
        IF out[j].label # "" /\ isUnusedLabel(d, out[j].label)
        THEN [out[j] EXCEPT !.label = ""] ELSE out[j]]

NoLabels == [pc |-> "off", prog |-> <<>>, first |-> <<>>, stmt |-> <<>>, d |-> newDesugarer]

\* ------------------------------------------------------------- the compiler

\* The program that is compiled: its procedures, the instantiations of Yield
\* that it holds, the packages with their declarations in the order of the
\* source file, and the calls that the call graph may hold.
Funcs == {"P", "U", "Q", "R"}

Yields == {"Y1", "Y2"}

\* The signature of an instantiation of Yield: the types of what is sent and
\* of what is received.
Signature(y) == IF y = "Y1" THEN <<"int", "int">> ELSE <<"string", "string">>

Packages == {"main", "lib", "dep"}

Decls(p) ==
    CASE p = "main" -> <<"P", "U">>
      [] p = "lib"  -> <<"Q">>
      [] p = "dep"  -> <<"R">>

PkgOf(f) == CHOOSE p \in Packages : \E i \in DOMAIN Decls(p) : Decls(p)[i] = f

CallEdges ==
    {<<"P", "Q">>, <<"P", "U">>, <<"U", "Y2">>, <<"Q", "R">>,
     <<"Q", "Y1">>, <<"R", "Y1">>, <<"R", "Y2">>}

\* Where the directory of a package is: below the directory of the module
\* (the vendor directory included), below GOROOT, or elsewhere, with a module
\* (the module cache) or without one.
Dirs == {"module", "goroot", "modcache", "nomodule"}

\* The statement that the body of Q holds: an assignment, a send on a
\* channel, an assignment that receives from a channel, a select, a goto to
\* the label of a statement, a goto to the label of a loop that precedes it,
\* a fallthrough.
Stmts == {"assign", "send", "recv", "select", "goto", "gotoloop", "fallthrough"}

Rejected == Stmts \ {"assign"}

NoColors == [f \in {} |-> <<"", "">>]

\* The callers of the instantiation are given its color and nothing more.
colorCallersOnce(cg, r, frontier, color) ==
    LET fresh == {e[1] : e \in {c \in cg : c[2] \in frontier}} \ DOMAIN r.colors
    IN  [r EXCEPT !.colors = [f \in DOMAIN r.colors \cup fresh |->
                                 IF f \in fresh THEN color ELSE r.colors[f]]]

\* The procedures that call one of the procedures of the frontier are given
\* the color, and then their callers: a procedure that has another color
\* already makes the coloring fail.
RECURSIVE colorCallers(_, _, _, _)
colorCallers(cg, r, frontier, color) ==
    IF frontier = {} \/ r.err # "none" THEN r
    ELSE LET callers == {e[1] : e \in {c \in cg : c[2] \in frontier}}
             clash   == {f \in callers \cap DOMAIN r.colors : r.colors[f] # color}
             fresh   == callers \ DOMAIN r.colors
         IN  IF clash # {} THEN [r EXCEPT !.err = "MixedYieldTypes"]
             ELSE colorCallers(cg,
                      [r EXCEPT !.colors =
                          [f \in DOMAIN r.colors \cup fresh |->
                              IF f \in fresh THEN color ELSE r.colors[f]]],
                      fresh, color)

RECURSIVE colorYields(_, _, _, _)
colorYields(cg, yields, r, todo) ==
    IF todo = {} THEN r
    ELSE LET y == CHOOSE y \in todo : TRUE
         IN  colorYields(cg, yields, colorCallers(cg, r, {y}, yields[y]), todo \ {y})

\* colorFunctions: the table of the colors, from the call graph and the
\* instantiations of Yield with their signatures, or the error.
colorFunctions(cg, yields) ==
    LET r == colorYields(cg, yields, [colors |-> NoColors, err |-> "none"], DOMAIN yields)
    IN  IF r.err # "none" THEN [r EXCEPT !.colors = NoColors] ELSE r

\* Nothing is rejected.
unsupportedNever(stmt) == "none"

\* unsupported: the error for the statement of a declaration.
unsupported(stmt) == IF stmt \in Rejected THEN "UnsupportedConstruct" ELSE "none"

\* The desugarer on a statement: select and fallthrough are not implemented,
\* a goto is looked up among the labels of the loops and switches desugared so
\* far and gets the label that replaced it, and the simple statements, a send
\* among them, are left as they are.
desugar(stmt) ==
    CASE stmt \in {"select", "fallthrough"} ->
             [out |-> "", label |-> "", panic |-> "not implemented"]
      [] stmt = "goto" ->
             [out |-> "", label |-> "", panic |-> "label not found"]
      [] stmt = "gotoloop" ->
             [out |-> "goto", label |-> "_l0", panic |-> "none"]
      [] OTHER ->
             [out |-> stmt, label |-> "", panic |-> "none"]

\* The statement in the body of a procedure.
StmtIn(b, f) == IF f = "Q" THEN b.stmt ELSE "assign"

\* A declaration as the source has it.
SourceDecl(b, f) == [fn |-> f, form |-> "unchanged", stmt |-> StmtIn(b, f), label |-> ""]

\* The file of a package as the source has it.
SourceFile(b, p) == [i \in DOMAIN Decls(p) |-> SourceDecl(b, Decls(p)[i])]

\* The declarations of the file of a package from the i-th on: one that has
\* no color is carried over, one that has a color is checked and compiled.
RECURSIVE compileDecls(_, _, _, _)
compileDecls(b, p, i, r) ==
    IF i > Len(Decls(p)) \/ r.err # "none" \/ r.panic # "none" THEN r
    ELSE LET f == Decls(p)[i]
             d == desugar(StmtIn(b, f))
         IN  IF f \notin DOMAIN b.colors
             THEN compileDecls(b, p, i + 1,
                      [r EXCEPT !.gen = Append(@, SourceDecl(b, f))])
             ELSE IF unsupported(StmtIn(b, f)) # "none"
             THEN [r EXCEPT !.err = unsupported(StmtIn(b, f))]
             ELSE IF d.panic # "none"
             THEN [r EXCEPT !.panic = d.panic,
                            !.desugared = @ \cup {[fn |-> f, in |-> StmtIn(b, f), d |-> d]}]
             ELSE compileDecls(b, p, i + 1,
                      [r EXCEPT !.gen = Append(@, [fn |-> f, form |-> "coroutine",
                                                   stmt |-> d.out, label |-> d.label]),
                                !.desugared = @ \cup {[fn |-> f, in |-> StmtIn(b, f), d |-> d]}])

\* A file that was written.
File(p, suffix, tag, decls) == [pkg |-> p, suffix |-> suffix, tag |-> tag, decls |-> decls]

\* The state of the compiler before it is given a program.
NoBuild ==
    [cg |-> {}, dir |-> [p \in Packages |-> "module"], stmt |-> "assign",
     pc |-> "off", err |-> "none", panic |-> "none", colors |-> NoColors,
     colorsByPkg |-> {}, needVendoring |-> {}, vendored |-> {}, compiled |-> {},
     files |-> {}, desugared |-> {}]

\* The program is loaded and its call graph is built.
Loaded(cg, dir, stmt) ==
    [NoBuild EXCEPT !.cg = cg, !.dir = dir, !.stmt = stmt, !.pc = "color"]

\* compile goes on after the error of the coloring.
ColorOfIgnoringError(b) ==
    LET r == colorFunctions(b.cg, [y \in Yields |-> Signature(y)])
    IN  [b EXCEPT !.pc = "locate", !.colors = r.colors,
                  !.colorsByPkg = {PkgOf(f) : f \in DOMAIN r.colors}]

\* compile, from the coloring to the packages that hold a colored procedure.
ColorOf(b) ==
    LET r == colorFunctions(b.cg, [y \in Yields |-> Signature(y)])
    IN  IF r.err # "none"
        THEN [b EXCEPT !.pc = "exit", !.err = r.err]
        ELSE [b EXCEPT !.pc = "locate", !.colors = r.colors,
                       !.colorsByPkg = {PkgOf(f) : f \in DOMAIN r.colors}]

\* The packages are not looked at: those of GOROOT are vendored.
LocateOfUnchecked(b) ==
    LET goroot == {p \in b.colorsByPkg : b.dir[p] = "goroot"}
    IN  [b EXCEPT !.needVendoring = goroot,
                  !.pc = IF goroot # {} THEN "vendor"
                         ELSE IF b.colorsByPkg = {} THEN "done" ELSE "packages"]

\* compile, the packages that cannot be changed where they are: one that is
\* neither below the module nor below GOROOT is an error, whether it has no
\* module or is not in the vendor directory.
LocateOf(b) ==
    LET outside == {p \in b.colorsByPkg : b.dir[p] \in {"modcache", "nomodule"}}
        goroot  == {p \in b.colorsByPkg : b.dir[p] = "goroot"}
    IN  IF outside # {}
        THEN [b EXCEPT !.pc = "exit", !.err = "UnvendoredDependency"]
        ELSE [b EXCEPT !.needVendoring = goroot,
                       !.pc = IF goroot # {} THEN "vendor"
                              ELSE IF b.colorsByPkg = {} THEN "done" ELSE "packages"]

\* vendorGOROOT: the packages of GOROOT are copied below the module.
VendorOf(b) == [b EXCEPT !.vendored = b.needVendoring, !.pc = "packages"]

\* compilePackage: the file is written again without the build tag, its
\* declarations are compiled and the file with the build tag is written.
compilePackage(b, p) ==
    LET r == compileDecls(b, p, 1,
                 [gen |-> <<>>, err |-> "none", panic |-> "none", desugared |-> {}])
        original == File(p, ".go", "!durable", SourceFile(b, p))
        durable  == File(p, "_durable.go", "durable", r.gen)
        left     == b.colorsByPkg \ (b.compiled \cup {p})
    IN  IF r.panic # "none"
        THEN [b EXCEPT !.files = @ \cup {original}, !.desugared = @ \cup r.desugared,
                       !.pc = "panic", !.panic = r.panic]
        ELSE IF r.err # "none"
        THEN [b EXCEPT !.files = @ \cup {original}, !.desugared = @ \cup r.desugared,
                       !.pc = "exit", !.err = r.err]
        ELSE [b EXCEPT !.files = @ \cup {original, durable},
                       !.desugared = @ \cup r.desugared,
                       !.compiled = @ \cup {p},
                       !.pc = IF left = {} THEN "done" ELSE "packages"]

\* ----------------------------------------------------------- the driver

\* The caller resumes the coroutine with a value: the value is placed in
\* send, the top pointer of the stack goes back below the first frame and the
\* entry point is called.
ResumeOf(x, s, entry) ==
    [x EXCEPT !.send = s,
              !.FP = 0,
              !.cs = <<[fn |-> entry, pc |-> 0, f |-> 0]>>,
              !.mode = "run",
              !.pval = "none",
              !.sends = Append(@, s),
              !.log = Append(@, Ev("resume", entry, 0, "", s))]

\* The entry point came back to the driver, by a return or by the unwind
\* sentinel: the coroutine is suspended when it is unwinding and completed
\* otherwise. Any other panic is not recovered.
QuiesceOf(x) ==
    IF x.mode = "panic" /\ x.pval # "unwind"
    THEN [x EXCEPT !.mode = "crashed"]
    ELSE [x EXCEPT !.mode = "idle", !.pval = "none", !.done = ~Unwinding(x)]

\* The caller asks the coroutine to stop.
StopOf(x) == [x EXCEPT !.stop = TRUE, !.log = Append(@, Ev("stop", "", 0, "", 0))]

\* ----------------------------------------------------------------- actions

Other(c) == 3 - c

\* No procedure of the coroutine is executing.
Quiet(x) == x.mode \in {"idle", "new", "crashed"}

Suspended(x) == x.mode = "idle" /\ ~x.done /\ Unwinding(x)

Running(x) == x.mode = "run" /\ x.cs # <<>>

AtOp(x, ops) ==
    /\ Running(x)
    /\ Act(x).pc \in Positions(Act(x).fn)
    /\ Body(Act(x).fn)[Act(x).pc].op \in ops

Init ==
    /\ ctx = [c \in Ctxs |-> IF c = 1 THEN NewContext("idle") ELSE NewContext("new")]
    /\ Entrypoint \in Entrypoints
    /\ wire = [bytes |-> <<>>, log |-> <<>>, ydepth |-> 0, full |-> FALSE]
    /\ types = newTypemap
    /\ build = NoBuild
    /\ chain = NoChain
    /\ hoist = NoHoist
    /\ mrange = NoMapRange
    /\ srange = NoSliceRange
    /\ labels = NoLabels
    /\ serde = NoGraph

\* The values the caller may answer with: a coroutine that has not yielded
\* yet has asked for nothing, and its send slot is still the zero value.
Answers(x) == IF Unwinding(x) THEN Sends ELSE {Zero}

\* The two processes do not depend on each other: the original process is the
\* reference run, and once its coroutine was marshalled it is resumed with the
\* values that the restored coroutine was resumed with, in the same order.
Replays(c, s) ==
    \/ ~wire.full
    \/ c = 2
    \/ /\ Len(ctx[1].sends) < Len(ctx[2].sends)
       /\ s = ctx[2].sends[Len(ctx[1].sends) + 1]

Resume(c, s) ==
    /\ ctx[c].mode = "idle"
    /\ ~ctx[c].done
    /\ Quiet(ctx[Other(c)])
    /\ s \in Answers(ctx[c])
    /\ Replays(c, s)
    /\ ctx' = [ctx EXCEPT ![c] = ResumeOf(@, s, Entrypoint)]
    /\ UNCHANGED <<Entrypoint, wire, elsewhere>>

Stop(c) ==
    /\ ctx[c].mode = "idle"
    /\ ~ctx[c].done
    /\ ~ctx[c].stop
    /\ ctx' = [ctx EXCEPT ![c] = StopOf(@)]
    /\ UNCHANGED <<Entrypoint, wire, elsewhere>>

Prologue(c) ==
    /\ Running(ctx[c])
    /\ Act(ctx[c]).pc = 0
    /\ ~isExpr(Body(Act(ctx[c]).fn))
    /\ ctx' = [ctx EXCEPT ![c] = PrologueOf(@)]
    /\ UNCHANGED <<Entrypoint, wire, elsewhere>>

ExecStmt(c) ==
    /\ AtOp(ctx[c], {"stmt"})
    /\ ctx' = [ctx EXCEPT ![c] = StmtOf(@)]
    /\ UNCHANGED <<Entrypoint, wire, elsewhere>>

ExecDefer(c) ==
    /\ AtOp(ctx[c], {"defer"})
    /\ ctx' = [ctx EXCEPT ![c] = DeferOf(@)]
    /\ UNCHANGED <<Entrypoint, wire, elsewhere>>

ExecLoop(c) ==
    /\ AtOp(ctx[c], {"init", "for", "post"})
    /\ ctx' = [ctx EXCEPT ![c] = LoopOf(@)]
    /\ UNCHANGED <<Entrypoint, wire, elsewhere>>

ExecCall(c) ==
    /\ AtOp(ctx[c], {"call"})
    /\ ctx' = [ctx EXCEPT ![c] = CallOf(@)]
    /\ UNCHANGED <<Entrypoint, wire, elsewhere>>

ExecYield(c) ==
    /\ AtOp(ctx[c], {"yield"})
    /\ ctx' = [ctx EXCEPT ![c] = YieldCallOf(@)]
    /\ UNCHANGED <<Entrypoint, wire, elsewhere>>

YieldStop(c) ==
    /\ ctx[c].mode = "yield53"
    /\ ctx' = [ctx EXCEPT ![c] = YieldEntry(@)]
    /\ UNCHANGED <<Entrypoint, wire, elsewhere>>

Yield(c) ==
    /\ ctx[c].mode = "yield56"
    /\ ctx' = [ctx EXCEPT ![c] = YieldBody(@)]
    /\ UNCHANGED <<Entrypoint, wire, elsewhere>>

Return(c) ==
    /\ Running(ctx[c])
    /\ Act(ctx[c]).pc > Len(Body(Act(ctx[c]).fn))
    /\ ctx' = [ctx EXCEPT ![c] = ReturnOf(@)]
    /\ UNCHANGED <<Entrypoint, wire, elsewhere>>

Unwind(c) ==
    /\ ctx[c].mode = "panic"
    /\ ctx[c].cs # <<>>
    /\ ctx' = [ctx EXCEPT ![c] = UnwindOf(@)]
    /\ UNCHANGED <<Entrypoint, wire, elsewhere>>

Quiesce(c) ==
    /\ ctx[c].mode \in {"run", "panic"}
    /\ ctx[c].cs = <<>>
    /\ ctx' = [ctx EXCEPT ![c] = QuiesceOf(@)]
    /\ UNCHANGED <<Entrypoint, wire, elsewhere>>

\* The original process marshals its quiescent coroutine, once.
Marshal ==
    /\ ctx[1].mode = "idle"
    /\ ~ctx[1].done
    /\ Quiet(ctx[2])
    /\ ~wire.full
    /\ wire' = [bytes |-> MarshalAppend(ctx[1], <<>>), log |-> ctx[1].log,
                ydepth |-> ctx[1].ydepth, full |-> TRUE]
    /\ ctx' = [ctx EXCEPT ![1].sends = <<>>]
    /\ UNCHANGED <<Entrypoint, elsewhere>>

\* Another process unmarshals the bytes into its fresh context.
Restore ==
    /\ ctx[2].mode = "new"
    /\ Quiet(ctx[1])
    /\ wire.full
    /\ ctx' = [ctx EXCEPT ![2] =
                  [Unmarshal(@, wire.bytes).c EXCEPT !.mode = "idle", !.log = wire.log,
                                                     !.ydepth = wire.ydepth]]
    /\ UNCHANGED <<Entrypoint, wire, elsewhere>>

Next ==
    \/ \E c \in Ctxs, s \in Sends \cup {Zero} : Resume(c, s)
    \/ \E c \in Ctxs : Stop(c)
    \/ \E c \in Ctxs : Prologue(c)
    \/ \E c \in Ctxs : ExecStmt(c)
    \/ \E c \in Ctxs : ExecDefer(c)
    \/ \E c \in Ctxs : ExecLoop(c)
    \/ \E c \in Ctxs : ExecCall(c)
    \/ \E c \in Ctxs : ExecYield(c)
    \/ \E c \in Ctxs : YieldStop(c)
    \/ \E c \in Ctxs : Yield(c)
    \/ \E c \in Ctxs : Return(c)
    \/ \E c \in Ctxs : Unwind(c)
    \/ \E c \in Ctxs : Quiesce(c)
    \/ Marshal
    \/ Restore

Spec == Init /\ [][Next]_vars

\* The caller sets stop from another thread while Yield is executing: the
\* read of c.stop after the resume flag was cleared races with this write.
StopRace(c) ==
    /\ ctx[c].mode = "yield56"
    /\ ~ctx[c].stop
    /\ ctx' = [ctx EXCEPT ![c] = StopOf(@)]
    /\ UNCHANGED <<Entrypoint, wire, elsewhere>>

NextRace ==
    \/ Next
    \/ \E c \in Ctxs : StopRace(c)

SpecRace == Init /\ [][NextRace]_vars

\* ------------------------------------------ a body that is one expression

\* The entry points whose call of Yield is in a body that is a single
\* expression statement: the body itself, and a procedure that calls it.
ExprEntrypoints == {"F", "G"}

InitExpr ==
    /\ ctx = [c \in Ctxs |-> IF c = 1 THEN NewContext("idle") ELSE NewContext("new")]
    /\ Entrypoint \in ExprEntrypoints
    /\ wire = [bytes |-> <<>>, log |-> <<>>, ydepth |-> 0, full |-> FALSE]
    /\ types = newTypemap
    /\ build = NoBuild
    /\ chain = NoChain
    /\ hoist = NoHoist
    /\ mrange = NoMapRange
    /\ srange = NoSliceRange
    /\ labels = NoLabels
    /\ serde = NoGraph

\* if isExpr(body) { return body }: the procedure is entered as it is in
\* the source, without a context, a frame or an epilogue.
Enter(c) ==
    /\ Running(ctx[c])
    /\ Act(ctx[c]).pc = 0
    /\ isExpr(Body(Act(ctx[c]).fn))
    /\ ctx' = [ctx EXCEPT ![c].cs[Len(ctx[c].cs)].pc = 1]
    /\ UNCHANGED <<Entrypoint, wire, elsewhere>>

ExecExpr(c) ==
    /\ AtOp(ctx[c], {"expr"})
    /\ ctx' = [ctx EXCEPT ![c] = ExprOf(@)]
    /\ UNCHANGED <<Entrypoint, wire, elsewhere>>

NextExpr ==
    \/ \E s \in Sends \cup {Zero} : Resume(1, s)
    \/ Stop(1)
    \/ Prologue(1)
    \/ Enter(1)
    \/ ExecStmt(1)
    \/ ExecCall(1)
    \/ ExecExpr(1)
    \/ YieldStop(1)
    \/ Yield(1)
    \/ Return(1)
    \/ Unwind(1)
    \/ Quiesce(1)

SpecExpr == InitExpr /\ [][NextExpr]_vars

\* ------------------------------------------- object graph round trip

\* A process holds an object graph: the roots and the pointers of the cells.
InitSerde ==
    /\ ctx = [c \in Ctxs |-> IF c = 1 THEN NewContext("idle") ELSE NewContext("new")]
    /\ Entrypoint = "A"
    /\ wire = [bytes |-> <<>>, log |-> <<>>, ydepth |-> 0, full |-> FALSE]
    /\ types = newTypemap
    /\ build = NoBuild
    /\ chain = NoChain
    /\ hoist = NoHoist
    /\ mrange = NoMapRange
    /\ srange = NoSliceRange
    /\ labels = NoLabels
    /\ serde \in {[NoGraph EXCEPT !.phase = "src", !.root = r, !.next = n] :
                     r \in Roots, n \in [CellAddrs -> Pointers]}

\* The graph is serialized from its root.
SerializeRoot ==
    /\ serde.phase = "src"
    /\ serde' = [serde EXCEPT !.phase = "wire",
                              !.bytes = SerializeGraph(serde.root, serde.next)]
    /\ UNCHANGED <<ctx, Entrypoint, wire, types, tooling>>

\* Another process rebuilds the graph from the bytes.
DeserializeRoot ==
    /\ serde.phase = "wire"
    /\ serde' = [serde EXCEPT !.phase = "dst", !.out = DeserializeGraph(serde.bytes)]
    /\ UNCHANGED <<ctx, Entrypoint, wire, types, tooling>>

NextSerde == SerializeRoot \/ DeserializeRoot

SpecSerde == InitSerde /\ [][NextSerde]_vars

\* --------------------------------------------------- shared backing array

\* The slice s[lo:hi] of the array s of the scenario.
ScenarioSlice(lo, hi) ==
    [ptr |-> ScenarioArray + lo, len |-> hi - lo, cap |-> ScenarioLen - lo]

\* The values that are stored into the elements of the rebuilt slices.
Written == {1, 2, 3}

\* A process holds the pair (s[0:3], s[1:4]).
InitShared ==
    /\ ctx = [c \in Ctxs |-> IF c = 1 THEN NewContext("idle") ELSE NewContext("new")]
    /\ Entrypoint = "A"
    /\ wire = [bytes |-> <<>>, log |-> <<>>, ydepth |-> 0, full |-> FALSE]
    /\ types = newTypemap
    /\ build = NoBuild
    /\ chain = NoChain
    /\ hoist = NoHoist
    /\ mrange = NoMapRange
    /\ srange = NoSliceRange
    /\ labels = NoLabels
    /\ serde = [NoGraph EXCEPT !.phase = "src",
                               !.root.s1 = ScenarioSlice(0, 3),
                               !.root.s2 = ScenarioSlice(1, 4)]

\* The element at index i of the rebuilt slice f.
ElementOf(out, f, i) == out.val[out.root[f].ptr + i]

\* t[i] = v on the rebuilt slice t of field f: i is within the length.
Mutate(f, i, v) ==
    /\ serde.phase = "dst"
    /\ i \in 0..(serde.out.root[f].len - 1)
    /\ serde' = [serde EXCEPT !.out.val[serde.out.root[f].ptr + i] = v]
    /\ UNCHANGED <<ctx, Entrypoint, wire, types, tooling>>

NextShared ==
    \/ SerializeRoot
    \/ DeserializeRoot
    \/ \E f \in {"s1", "s2"}, i \in 0..(ScenarioLen - 1), v \in Written : Mutate(f, i, v)

SpecShared == InitShared /\ [][NextShared]_vars

\* ------------------------------------------------------------ registration

InitTypes ==
    /\ ctx = [c \in Ctxs |-> IF c = 1 THEN NewContext("idle") ELSE NewContext("new")]
    /\ Entrypoint = "A"
    /\ wire = [bytes |-> <<>>, log |-> <<>>, ydepth |-> 0, full |-> FALSE]
    /\ serde = NoGraph
    /\ types = newTypemap
    /\ build = NoBuild
    /\ chain = NoChain
    /\ hoist = NoHoist
    /\ mrange = NoMapRange
    /\ srange = NoSliceRange
    /\ labels = NoLabels

\* Register[T](serializer, deserializer) on the global register.
Register(t, serializer, deserializer) ==
    /\ types' = [registerSerde(types, t, serializer, deserializer) EXCEPT
                     !.last = [t |-> t, ser |-> serializer, des |-> deserializer]]
    /\ UNCHANGED <<ctx, Entrypoint, wire, serde, tooling>>

NextTypes == \E t \in Types, s \in Callbacks, d \in Callbacks : Register(t, s, d)

SpecTypes == InitTypes /\ [][NextTypes]_vars

\* ------------------------------------------------------------- compilation

\* The compiler is given a program: a call graph, the directories of the
\* packages and the statement in the body of Q.
InitCompile ==
    /\ ctx = [c \in Ctxs |-> IF c = 1 THEN NewContext("idle") ELSE NewContext("new")]
    /\ Entrypoint = "A"
    /\ wire = [bytes |-> <<>>, log |-> <<>>, ydepth |-> 0, full |-> FALSE]
    /\ serde = NoGraph
    /\ types = newTypemap
    /\ chain = NoChain
    /\ hoist = NoHoist
    /\ mrange = NoMapRange
    /\ srange = NoSliceRange
    /\ labels = NoLabels
    /\ build \in {Loaded(cg, [p \in Packages |-> IF p = "main" THEN "module" ELSE dir[p]], stmt) :
                     cg \in SUBSET CallEdges,
                     dir \in [Packages -> Dirs],
                     stmt \in Stmts}

\* The procedures are colored.
Color ==
    /\ build.pc = "color"
    /\ build' = ColorOf(build)
    /\ UNCHANGED <<ctx, Entrypoint, wire, serde, types, chain, hoist, lowering>>

\* The directories of the packages with a colored procedure are looked at.
Locate ==
    /\ build.pc = "locate"
    /\ build' = LocateOf(build)
    /\ UNCHANGED <<ctx, Entrypoint, wire, serde, types, chain, hoist, lowering>>

\* The packages of the standard library are vendored.
Vendor ==
    /\ build.pc = "vendor"
    /\ build' = VendorOf(build)
    /\ UNCHANGED <<ctx, Entrypoint, wire, serde, types, chain, hoist, lowering>>

\* One of the packages with a colored procedure is compiled: the order is
\* that of the iteration over a map.
CompilePackage(p) ==
    /\ build.pc = "packages"
    /\ p \in build.colorsByPkg \ build.compiled
    /\ build' = compilePackage(build, p)
    /\ UNCHANGED <<ctx, Entrypoint, wire, serde, types, chain, hoist, lowering>>

NextCompile ==
    \/ Color
    \/ Locate
    \/ Vendor
    \/ \E p \in Packages : CompilePackage(p)

SpecCompile == InitCompile /\ [][NextCompile]_vars

\* ------------------------------------------------------ append and read back

\* The Context s of a suspended coroutine is appended to a buffer that holds
\* the bytes b.
AppendTo(s, b) ==
    /\ chain.phase = "none"
    /\ ctx[s].mode = "idle"
    /\ ~ctx[s].done
    /\ chain' = [chain EXCEPT !.phase = "appended", !.prefix = b,
                               !.bytes = MarshalAppend(ctx[s], b),
                               !.frames = ctx[s].Frames]
    /\ UNCHANGED <<ctx, Entrypoint, wire, serde, types, build, hoist, lowering>>

\* The Context c is unmarshalled from the bytes that were appended, followed
\* by the bytes t.
ReadFrom(c, t) ==
    /\ chain.phase = "appended"
    /\ Quiet(ctx[c])
    /\ LET appended == SubSeq(chain.bytes, Len(chain.prefix) + 1, Len(chain.bytes))
           got == Unmarshal(ctx[c], appended \o t)
       IN  /\ ctx' = [ctx EXCEPT ![c] = got.c]
           /\ chain' = [chain EXCEPT !.phase = "read", !.trailer = t,
                                      !.sn = got.sn, !.target = c]
    /\ UNCHANGED <<Entrypoint, wire, serde, types, build, hoist, lowering>>

\* The coroutines run until a Context is appended to the buffer; the buffer
\* is then read back.
NextAppend ==
    \/ chain.phase = "none" /\ Next
    \/ \E s \in Ctxs, b \in Prefixes : AppendTo(s, b)
    \/ \E c \in Ctxs, t \in Trailers : ReadFrom(c, t)

\* The coroutine of the nested calls: its Stack holds up to two frames, with
\* their deferred functions.
InitAppend == Init /\ Entrypoint = "A"

SpecAppend == InitAppend /\ [][NextAppend]_vars

\* ------------------------------------------------------- hoisted initializers

InitHoist ==
    /\ ctx = [c \in Ctxs |-> IF c = 1 THEN NewContext("idle") ELSE NewContext("new")]
    /\ Entrypoint = "A"
    /\ wire = [bytes |-> <<>>, log |-> <<>>, ydepth |-> 0, full |-> FALSE]
    /\ serde = NoGraph
    /\ types = newTypemap
    /\ build = NoBuild
    /\ chain = NoChain
    /\ hoist \in {Compiled(s) : s \in HeaderStmts}
    /\ mrange = NoMapRange
    /\ srange = NoSliceRange
    /\ labels = NoLabels

\* The procedure is called: the frame is new and the body starts at its
\* first statement.
HCall ==
    /\ hoist.mode \in {"new", "done"}
    /\ hoist.calls < MaxCalls
    /\ hoist' = [hoist EXCEPT !.mode = "run", !.IP = 0, !.iter = 0, !.calls = @ + 1,
                               !.resuming = FALSE,
                               !.pc = IF hoist.tree.block THEN "block" ELSE "head",
                               !.log = Append(@, "enter")]
    /\ UNCHANGED <<ctx, Entrypoint, wire, serde, types, build, chain, lowering>>
\* The init that was put in front of the statement.
HInit ==
    /\ hoist.mode = "run"
    /\ hoist.pc = "block"
    /\ hoist' = [hoist EXCEPT !.pc = "head", !.log = Append(@, hoist.tree.list[1])]
    /\ UNCHANGED <<ctx, Entrypoint, wire, serde, types, build, chain, lowering>>
\* The statement is executed from its header: an init that the header holds
\* is executed first.
HHead ==
    /\ hoist.mode = "run"
    /\ hoist.pc = "head"
    /\ hoist' = [hoist EXCEPT !.pc = "cond",
                               !.log = IF hoist.tree.stmt.init # "none"
                                       THEN Append(@, hoist.tree.stmt.init) ELSE @]
    /\ UNCHANGED <<ctx, Entrypoint, wire, serde, types, build, chain, lowering>>
\* The condition or the tag is evaluated, and the body is entered or not:
\* the dispatch of the body goes on at the call of Yield when the coroutine
\* is resumed, at its first statement otherwise. The condition of the loop
\* holds while the iterations are not over; the others hold or not. What the
\* condition reads is in the frame, so that it holds again when the
\* coroutine is resumed inside the body.
HCond(v) ==
    /\ hoist.mode = "run"
    /\ hoist.pc = "cond"
    /\ hoist.resuming => v
    /\ hoist.src.kind = "for" => (v <=> hoist.iter < MaxIter)
    /\ hoist' = [hoist EXCEPT !.log = Append(@, "cond"),
                               !.pc = IF ~v THEN "end"
                                      ELSE IF hoist.resuming THEN "yield" ELSE "b1"]
    /\ UNCHANGED <<ctx, Entrypoint, wire, serde, types, build, chain, lowering>>
\* A statement of the body.
HStmt ==
    /\ hoist.mode = "run"
    /\ hoist.pc \in {"b1", "b2"}
    /\ hoist' = [hoist EXCEPT !.log = Append(@, hoist.pc),
                               !.pc = IF hoist.pc = "b1" THEN "yield"
                                      ELSE IF hoist.src.kind = "for" THEN "post" ELSE "end"]
    /\ UNCHANGED <<ctx, Entrypoint, wire, serde, types, build, chain, lowering>>
\* The call of Yield: the coroutine is suspended inside the body, or the
\* call returns when the coroutine was resumed.
HYield ==
    /\ hoist.mode = "run"
    /\ hoist.pc = "yield"
    /\ hoist' = IF hoist.resuming
                THEN [hoist EXCEPT !.resuming = FALSE, !.pc = "b2",
                                   !.log = Append(@, "resume")]
                ELSE [hoist EXCEPT !.mode = "suspended", !.IP = 1,
                                   !.log = Append(@, "yield")]
    /\ UNCHANGED <<ctx, Entrypoint, wire, serde, types, build, chain, lowering>>
\* The coroutine is resumed: the procedure is entered again and the dispatch
\* selects the span of the statement, after the statements in front of it.
HResume ==
    /\ hoist.mode = "suspended"
    /\ hoist' = [hoist EXCEPT !.mode = "run", !.resuming = TRUE, !.pc = "head"]
    /\ UNCHANGED <<ctx, Entrypoint, wire, serde, types, build, chain, lowering>>
\* The post statement of the loop, and the jump back to the condition.
HPost ==
    /\ hoist.mode = "run"
    /\ hoist.pc = "post"
    /\ hoist' = [hoist EXCEPT !.iter = @ + 1, !.pc = "cond", !.log = Append(@, "post")]
    /\ UNCHANGED <<ctx, Entrypoint, wire, serde, types, build, chain, lowering>>
\* The procedure returns.
HReturn ==
    /\ hoist.mode = "run"
    /\ hoist.pc = "end"
    /\ hoist' = [hoist EXCEPT !.mode = "done", !.pc = "none"]
    /\ UNCHANGED <<ctx, Entrypoint, wire, serde, types, build, chain, lowering>>
NextHoist ==
    \/ HCall
    \/ HInit
    \/ HHead
    \/ \E v \in BOOLEAN : HCond(v)
    \/ HStmt
    \/ HYield
    \/ HResume
    \/ HPost
    \/ HReturn

SpecHoist == InitHoist /\ [][NextHoist]_vars

\* --------------------------------------------------- the loop over a map
\*   for k, v := range m { visit(k, v); <the body changes m>; yield(k) }

InitMapRange ==
    /\ ctx = [c \in Ctxs |-> IF c = 1 THEN NewContext("idle") ELSE NewContext("new")]
    /\ Entrypoint = "A"
    /\ wire = [bytes |-> <<>>, log |-> <<>>, ydepth |-> 0, full |-> FALSE]
    /\ serde = NoGraph
    /\ types = newTypemap
    /\ build = NoBuild
    /\ chain = NoChain
    /\ hoist = NoHoist
    /\ srange = NoSliceRange
    /\ labels = NoLabels
    /\ mrange \in {[NoMapRange EXCEPT !.pc = "collect", !.mode = "run",
                                      !.entry = MapOf(S), !.m = MapOf(S)] :
                      S \in SUBSET MapKeys}

\* What the loop over a map leaves alone.
besideMapRange == <<ctx, Entrypoint, wire, serde, types, build, chain, hoist, srange, labels>>

\* _x := m, and the loop that collects the keys: the range over the map is
\* left to the language, which meets the keys in an order of its choice, and
\* its body appends the key to the new slice.
MCollect(order) ==
    /\ mrange.mode = "run"
    /\ mrange.pc = "collect"
    /\ order \in Orders(mrange.m)
    /\ mrange' = [mrange EXCEPT !.keys = order, !.collected = order, !.i = 0, !.pc = "cond"]
    /\ UNCHANGED besideMapRange

\* _i < len(_keys)
MCond ==
    /\ mrange.mode = "run"
    /\ mrange.pc = "cond"
    /\ mrange' = IF mrange.i < Len(mrange.keys)
                 THEN [mrange EXCEPT !.pc = "index"]
                 ELSE [mrange EXCEPT !.pc = "end", !.mode = "done"]
    /\ UNCHANGED besideMapRange

\* mapKey := _keys[_i]; mapValue, ok := _x[mapKey]; if ok { ... }
MIndex ==
    /\ mrange.mode = "run"
    /\ mrange.pc = "index"
    /\ LET k == mrange.keys[mrange.i + 1]
           r == MapIndex(mrange.m, k)
       IN  mrange' = [mrange EXCEPT
                         !.k = k, !.v = r.v,
                         !.pc = IF r.ok THEN "body" ELSE "post",
                         !.log = Append(@, [k |-> k, v |-> r.v, ok |-> r.ok,
                                            idx |-> mrange.i + 1, at |-> mrange.m])]
    /\ UNCHANGED besideMapRange

\* The body of the source, which may change the map, up to its yield.
MBody(w) ==
    /\ mrange.mode = "run"
    /\ mrange.pc = "body"
    /\ mrange' = [mrange EXCEPT !.m = MapAfter(@, w), !.pc = "yield"]
    /\ UNCHANGED besideMapRange

\* The coroutine is suspended inside the body.
MYield ==
    /\ mrange.mode = "run"
    /\ mrange.pc = "yield"
    /\ mrange' = [mrange EXCEPT !.mode = "suspended"]
    /\ UNCHANGED besideMapRange

\* The coroutine is resumed inside the body: the statements in front of the
\* loop and in front of the if statement are skipped, the frame holds the
\* keys, the index and the map, and the body is left after the yield.
MResume ==
    /\ mrange.mode = "suspended"
    /\ mrange' = [mrange EXCEPT !.mode = "run", !.pc = "post", !.resumes = @ + 1]
    /\ UNCHANGED besideMapRange

\* _i++
MPost ==
    /\ mrange.mode = "run"
    /\ mrange.pc = "post"
    /\ mrange' = [mrange EXCEPT !.i = @ + 1, !.pc = "cond"]
    /\ UNCHANGED besideMapRange

NextMapRange ==
    \/ \E order \in UNION {Orders(MapOf(S)) : S \in SUBSET MapKeys} : MCollect(order)
    \/ MCond
    \/ MIndex
    \/ \E w \in MapOps : MBody(w)
    \/ MYield
    \/ MResume
    \/ MPost

SpecMapRange == InitMapRange /\ [][NextMapRange]_vars

\* ------------------------------------------------- the loop over a slice
\*   { _x := x; _l: for i := 0; i < len(_x); i++ { v := _x[i]; <body> } }

InitSliceRange ==
    /\ ctx = [c \in Ctxs |-> IF c = 1 THEN NewContext("idle") ELSE NewContext("new")]
    /\ Entrypoint = "A"
    /\ wire = [bytes |-> <<>>, log |-> <<>>, ydepth |-> 0, full |-> FALSE]
    /\ serde = NoGraph
    /\ types = newTypemap
    /\ build = NoBuild
    /\ chain = NoChain
    /\ hoist = NoHoist
    /\ mrange = NoMapRange
    /\ labels = NoLabels
    /\ srange \in {[NoSliceRange EXCEPT !.pc = "init", !.x = x, !.body = b] :
                      x \in RangeSlices, b \in RangeBodies}

\* What the loop over a slice leaves alone.
besideSliceRange == <<ctx, Entrypoint, wire, serde, types, build, chain, hoist, mrange, labels>>

\* _x := x; i := 0
SInit ==
    /\ srange.pc = "init"
    /\ srange' = [srange EXCEPT !._x = srange.x, !.i = 0, !.pc = "cond"]
    /\ UNCHANGED besideSliceRange

\* i < len(_x)
SCond ==
    /\ srange.pc = "cond"
    /\ srange' = [srange EXCEPT !.pc = IF srange.i >= Len(srange._x) THEN "end"
                                       ELSE IF srange.runs < MaxRuns THEN "value"
                                       ELSE "more"]
    /\ UNCHANGED besideSliceRange

\* v := _x[i], the statement put in front of the body
SValue ==
    /\ srange.pc = "value"
    /\ srange' = [srange EXCEPT !.v = srange._x[srange.i + 1], !.p = 1,
                                !.runs = @ + 1, !.pc = "body"]
    /\ UNCHANGED besideSliceRange

\* A statement of the body: the key of the source is the variable i of the
\* loop; continue goes to the post statement, break leaves the loop.
SStmt ==
    /\ srange.pc = "body"
    /\ srange' =
          IF srange.p > Len(srange.body) THEN [srange EXCEPT !.pc = "post"]
          ELSE LET s == srange.body[srange.p]
               IN  CASE s.op = "emit" ->
                          [srange EXCEPT !.log = Append(@, <<srange.i, srange.v>>), !.p = @ + 1]
                     [] s.op = "assign" -> [srange EXCEPT !.i = s.n, !.p = @ + 1]
                     [] s.op = "continue" ->
                          IF srange.i = s.n THEN [srange EXCEPT !.pc = "post"]
                          ELSE [srange EXCEPT !.p = @ + 1]
                     [] s.op = "break" ->
                          IF srange.i = s.n THEN [srange EXCEPT !.pc = "end"]
                          ELSE [srange EXCEPT !.p = @ + 1]
    /\ UNCHANGED besideSliceRange

\* i++
SPost ==
    /\ srange.pc = "post"
    /\ srange' = [srange EXCEPT !.i = @ + 1, !.pc = "cond"]
    /\ UNCHANGED besideSliceRange

NextSliceRange ==
    \/ SInit
    \/ SCond
    \/ SValue
    \/ SStmt
    \/ SPost

SpecSliceRange == InitSliceRange /\ [][NextSliceRange]_vars

\* --------------------------------------------------- labels of a statement
InitLabels ==
    /\ ctx = [c \in Ctxs |-> IF c = 1 THEN NewContext("idle") ELSE NewContext("new")]
    /\ Entrypoint = "A"
    /\ wire = [bytes |-> <<>>, log |-> <<>>, ydepth |-> 0, full |-> FALSE]
    /\ serde = NoGraph
    /\ types = newTypemap
    /\ build = NoBuild
    /\ chain = NoChain
    /\ hoist = NoHoist
    /\ mrange = NoMapRange
    /\ srange = NoSliceRange
    /\ labels \in {[NoLabels EXCEPT !.pc = "source", !.prog = p] : p \in NestStmts}

\* desugar(stmt, info): the two passes.
Desugar ==
    /\ labels.pc = "source"
    /\ LET r == desugarNest(labels.prog, 1, "", "", newDesugarer)
       IN  labels' = [labels EXCEPT !.pc = "desugared", !.first = r.out, !.d = r.d,
                                    !.stmt = removeUnused(r.out, r.d)]
    /\ UNCHANGED <<ctx, Entrypoint, wire, serde, types, build, chain, hoist, mrange, srange>>

NextLabels == Desugar

SpecLabels == InitLabels /\ [][NextLabels]_vars

\* ------------------------------------------------------------ Yield claims

\* The step of context c is the body of Yield (from `frame := c.Top()` on).
InYield(c) == ctx[c].mode = "yield56" /\ ctx'[c] # ctx[c] /\ ctx'[c].stop = ctx[c].stop

\* The step of context c is the first statement of Yield.
EnteringYield(c) == ctx[c].mode = "yield53" /\ ctx'[c] # ctx[c]

\* C1: Yield on a context that is not stopped and whose top frame has the
\* resume flag false stores the value into recv, resets send to the zero
\* value, sets the resume flag of the top frame and raises the unwind
\* sentinel instead of returning; it pushes and pops no frame and changes
\* nothing else of any frame.
YieldSuspends ==
    [][\A c \in Ctxs :
         /\ (EnteringYield(c) /\ ~ctx[c].stop) =>
               /\ ctx'[c].mode = "yield56"
               /\ ctx'[c].recv = ctx[c].recv
               /\ ctx'[c].send = ctx[c].send
               /\ ctx'[c].Frames = ctx[c].Frames
         /\ (InYield(c) /\ ~ctx[c].stop /\ ~Top(ctx[c]).Resume) =>
               /\ ctx'[c].recv = ctx[c].yval
               /\ ctx'[c].send = Zero
               /\ ctx'[c].Frames =
                     [ctx[c].Frames EXCEPT ![Len(ctx[c].Frames)].Resume = TRUE]
               /\ ctx'[c].mode = "panic"
               /\ ctx'[c].pval = "unwind"
               /\ ctx'[c].cs = ctx[c].cs]_vars

\* C1 witness: the second yield of B, called from A, has suspended: send held
\* the value of the last resume and there is a frame below the top one.
YieldSuspendsWitness ==
    /\ ctx[1].mode = "panic"
    /\ ctx[1].pval = "unwind"
    /\ ctx[1].recv = 8
    /\ ctx[1].send = Zero
    /\ Len(ctx[1].Frames) = 2
    /\ Top(ctx[1]).Resume
    /\ ~ctx[1].Frames[1].Resume

\* C2: Yield on a top frame whose resume flag is true clears the flag; if
\* stop became true in the meantime it raises the unwind sentinel, otherwise
\* it returns the current send value to its caller; recv and send are left
\* unchanged and, when it returns, nothing is raised.
YieldResumes ==
    [][\A c \in Ctxs :
         (InYield(c) /\ Top(ctx[c]).Resume) =>
            LET n == Len(ctx[c].Frames)
                f == Act(ctx[c]).f
            IN  /\ ~ctx'[c].Frames[n].Resume
                /\ ctx'[c].recv = ctx[c].recv
                /\ ctx'[c].send = ctx[c].send
                /\ Len(ctx'[c].Frames) = n
                /\ IF ctx[c].stop
                   THEN /\ ctx'[c].mode = "panic"
                        /\ ctx'[c].pval = "unwind"
                        /\ ctx'[c].cs = ctx[c].cs
                        /\ ctx'[c].Frames = [ctx[c].Frames EXCEPT ![n].Resume = FALSE]
                   ELSE /\ ctx'[c].mode = "run"
                        /\ ctx'[c].pval = "none"
                        /\ ctx'[c].Frames[f].r = ctx[c].send
                        /\ ctx'[c].Frames =
                              [ctx[c].Frames EXCEPT ![n].Resume = FALSE,
                                                    ![f].r = ctx[c].send]]_vars

\* C2 witness: a resumed Yield has returned a sent value, and a later resumed
\* Yield found stop set after it had cleared the flag and raised the sentinel.
YieldResumesWitness ==
    /\ ctx[1].mode = "panic"
    /\ ctx[1].pval = "unwind"
    /\ ctx[1].stop
    /\ Len(ctx[1].Frames) > 0
    /\ ~Top(ctx[1]).Resume
    /\ \E k \in 1..Len(ctx[1].log) : ctx[1].log[k].k = "ret" /\ ctx[1].log[k].v \in Sends

\* C9: Yield on a context whose stop flag is true aborts as a stopped
\* coroutine, whatever the resume flag of the top frame is, and leaves recv,
\* send, the stack and every resume flag unchanged.
YieldStopped ==
    [][\A c \in Ctxs :
         (EnteringYield(c) /\ ctx[c].stop) =>
            /\ ctx'[c].mode = "panic"
            /\ ctx'[c].pval = "stopped"
            /\ ctx'[c].recv = ctx[c].recv
            /\ ctx'[c].send = ctx[c].send
            /\ ctx'[c].Frames = ctx[c].Frames
            /\ ctx'[c].FP = ctx[c].FP
            /\ ctx'[c].cs = ctx[c].cs]_vars

\* C9 witness: one coroutine aborted in Yield with the resume flag of its top
\* frame false, the other with the flag true.
YieldStoppedWitness ==
    /\ ctx[1].mode = "panic"
    /\ ctx[1].pval = "stopped"
    /\ Len(ctx[1].Frames) > 0
    /\ ~Top(ctx[1]).Resume
    /\ ctx[2].pval = "stopped"
    /\ Len(ctx[2].Frames) > 0
    /\ Top(ctx[2]).Resume

\* ------------------------------------------------------------ program order

\* The number of entries of the history L up to position k that satisfy P.
Count(L, k, P(_)) == Cardinality({j \in 1..k : P(L[j])})

\* No statement is executed twice for the same values of the locals.
NoStatementTwice(L) ==
    \A j, k \in 1..Len(L) :
        (j < k /\ L[j].k = "stmt" /\ L[k].k = "stmt") =>
            ~(L[j].fn = L[k].fn /\ L[j].at = L[k].at /\ L[j].v = L[k].v)

\* When a yield suspends for the n-th time at a position, every statement
\* before it in the body was executed exactly n times before.
StatementsBeforeYield(L) ==
    \A k \in 1..Len(L) :
        L[k].k = "yield" =>
            LET SameYield(e) == e.k = "yield" /\ e.fn = L[k].fn /\ e.at = L[k].at
                n == Count(L, k, SameYield)
            IN  \A p \in 1..(L[k].at - 1) :
                    Body(L[k].fn)[p].op = "stmt" =>
                        LET ThatStmt(e) == e.k = "stmt" /\ e.fn = L[k].fn /\ e.at = p
                        IN  Count(L, k, ThatStmt) = n

\* A resumption executes nothing before the Yield that suspended returns,
\* and the statement that follows that yield is the first one executed.
ResumesAfterYield(L) ==
    \A k \in 1..Len(L) :
        /\ (L[k].k = "ret") =>
              /\ k > 1
              /\ L[k - 1].k = "resume"
              /\ \E j \in 1..(k - 1) :
                    /\ L[j].k = "yield" /\ L[j].fn = L[k].fn /\ L[j].at = L[k].at
                    /\ \A m \in (j + 1)..(k - 1) : L[m].k \in {"resume", "stop"}
              /\ (k < Len(L) /\ L[k].at < Len(Body(L[k].fn))
                    /\ Body(L[k].fn)[L[k].at + 1].op = "stmt") =>
                        /\ L[k + 1].k = "stmt"
                        /\ L[k + 1].fn = L[k].fn
                        /\ L[k + 1].at = L[k].at + 1
        /\ (L[k].k = "resume" /\ k < Len(L) /\ k > 1 /\ L[k - 1].k = "yield") =>
              L[k + 1].k = "ret"

\* C3: over any sequence of suspensions and resumptions, every statement
\* that precedes a yield is executed before that yield and exactly once per
\* entry (never again on a resume), and after a resumption the first
\* statement executed in the yielding procedure is the one after the yield.
ProgramOrder ==
    \A c \in Ctxs :
        /\ NoStatementTwice(ctx[c].log)
        /\ StatementsBeforeYield(ctx[c].log)
        /\ ResumesAfterYield(ctx[c].log)

\* C3 witness: A was resumed inside B, B went on with b2, suspended again, was
\* resumed and completed, and A went on with a2.
ProgramOrderWitness ==
    /\ Entrypoint = "A"
    /\ \E k \in 1..Len(ctx[1].log) : ctx[1].log[k].k = "stmt" /\ ctx[1].log[k].id = "a2"
    /\ Count(ctx[1].log, Len(ctx[1].log), LAMBDA e : e.k = "ret") = 2

\* ------------------------------------------- serialization round trip

\* The values that the coroutine yielded, oldest first.
RECURSIVE Yielded(_)
Yielded(L) ==
    IF L = <<>> THEN <<>>
    ELSE IF Head(L).k = "yield" THEN <<Head(L).v>> \o Yielded(Tail(L))
    ELSE Yielded(Tail(L))

\* The restored coroutine and the one that was never serialized have been
\* resumed with the same values since the marshalling, and both are back at
\* the driver.
SameResumes ==
    /\ wire.full
    /\ ctx[1].mode = "idle"
    /\ ctx[2].mode = "idle"
    /\ ctx[1].sends = ctx[2].sends

\* C4: a coroutine marshalled after a yield and unmarshalled into a fresh
\* context, resumed with the same send values as the run that was never
\* serialized, is at the same point as that run: the same frames with the
\* same locals, the same values yielded, the same recv value at the next
\* yield, and it completes when the other run completes.
RoundTripEquivalent ==
    SameResumes =>
        /\ ctx[2].Frames = ctx[1].Frames
        /\ ctx[2].done = ctx[1].done
        /\ Yielded(ctx[2].log) = Yielded(ctx[1].log)
        /\ (ctx[1].sends # <<>> /\ ~ctx[1].done) => ctx[2].recv = ctx[1].recv

\* C4 witness: the counter loop marshalled after its second yield; the
\* restored coroutine yielded the last value of the counter and both runs
\* completed after the same resumes.
RoundTripWitness ==
    /\ SameResumes
    /\ Entrypoint = "C"
    /\ Len(Yielded(wire.log)) = 2
    /\ Len(ctx[2].sends) = CounterLimit - 1
    /\ Yielded(ctx[2].log)[Len(Yielded(ctx[2].log))] = CounterLimit - 1
    /\ ctx[2].done
    /\ ctx[1].done

\* C4 witness, second half: the restored coroutine is suspended at the next
\* yield with the recv value of the run that was never serialized.
RoundTripWitnessYield ==
    /\ SameResumes
    /\ Entrypoint = "A"
    /\ ctx[2].sends # <<>>
    /\ Suspended(ctx[2])
    /\ ctx[2].recv = 8

\* ------------------------------------------------------ epilogue invariant

\* The coroutine is back at the driver after a Yield that suspended it.
AtSuspension(x) ==
    /\ x.mode = "idle"
    /\ \E k \in 1..Len(x.log) :
          /\ x.log[k].k = "yield"
          /\ \A m \in (k + 1)..Len(x.log) : x.log[m].k = "stop"

\* The procedure at the top of the call stack of c returns in this step.
Returning(c) ==
    /\ Running(ctx[c])
    /\ Act(ctx[c]).pc > Len(Body(Act(ctx[c]).fn))
    /\ ctx'[c] # ctx[c]

\* The procedure at the top of the call stack of c is left in this step, by
\* a return or by a panic, and its epilogue runs.
Leaving(c) ==
    \/ Returning(c)
    \/ /\ ctx[c].mode = "panic"
       /\ ctx[c].cs # <<>>
       /\ ctx'[c] # ctx[c]

FramesAtSuspension ==
    \A c \in Ctxs : AtSuspension(ctx[c]) => Len(ctx[c].Frames) = ctx[c].ydepth

FramesAfterReturn ==
    \A c \in Ctxs :
        Returning(c) => Len(ctx'[c].Frames) = ctx[c].base[Act(ctx[c]).f]

RetainsWhenUnwinding ==
    \A c \in Ctxs :
        Leaving(c) =>
            IF Unwinding(ctx[c])
            THEN ctx'[c].Frames = ctx[c].Frames
            ELSE ctx'[c].Frames = SubSeq(ctx[c].Frames, 1, Len(ctx[c].Frames) - 1)

EveryFrameResumes ==
    \A c \in Ctxs :
        AtSuspension(ctx[c]) =>
            \A k \in 1..Len(ctx[c].Frames) : ctx[c].Frames[k].Resume

\* C6: at any suspension point the stack is not empty, its top frame has the
\* resume flag set and every frame below the top one has it clear.
TopFrameResumes ==
    \A c \in Ctxs :
        AtSuspension(ctx[c]) =>
            /\ ctx[c].Frames # <<>>
            /\ \A k \in 1..Len(ctx[c].Frames) :
                  ctx[c].Frames[k].Resume <=> (k = Len(ctx[c].Frames))

\* C6 witness: suspended in B called from A; B's frame has the flag, A's
\* frame does not.
TopFrameResumesWitness ==
    /\ AtSuspension(ctx[1])
    /\ Len(ctx[1].Frames) = 2
    /\ ctx[1].Frames[1].fn = "A" /\ ~ctx[1].Frames[1].Resume
    /\ ctx[1].Frames[2].fn = "B" /\ ctx[1].Frames[2].Resume

\* -------------------------------------------------------- deferred actions

\* The position in L of the registration of the deferred function d; 0 when
\* it was not registered.
Registered(L, d) ==
    IF \E k \in 1..Len(L) : L[k].k = "defer" /\ L[k].id = d
    THEN CHOOSE k \in 1..Len(L) : L[k].k = "defer" /\ L[k].id = d
    ELSE 0

\* A deferred function runs at most once, and after its registration.
RunsAtMostOnce(L) ==
    \A k \in 1..Len(L) :
        L[k].k = "run" =>
            /\ Registered(L, L[k].id) \in 1..(k - 1)
            /\ \A j \in 1..(k - 1) : ~(L[j].k = "run" /\ L[j].id = L[k].id)

\* The deferred functions of a frame run last registered first, all of them
\* together, and the frame is popped right after the last one.
RunsBeforePop(L) ==
    \A k \in 1..Len(L) :
        L[k].k = "run" =>
            /\ \E m \in (k + 1)..Len(L) :
                  /\ L[m].k = "pop" /\ L[m].fn = L[k].fn
                  /\ \A j \in (k + 1)..(m - 1) : L[j].k = "run" /\ L[j].fn = L[k].fn
            /\ \A j \in 1..(k - 1) :
                  (L[j].k = "run" /\ L[j].fn = L[k].fn) =>
                      Registered(L, L[j].id) > Registered(L, L[k].id)
            /\ \A j \in 1..Len(L) :
                  (L[j].k = "defer" /\ L[j].fn = L[k].fn) =>
                      \E m \in 1..Len(L) : L[m].k = "run" /\ L[m].id = L[j].id

\* In a coroutine that was not stopped, the deferred functions of a
\* procedure run after every statement of the procedure was executed.
RunsAfterStatements(L) ==
    \A k \in 1..Len(L) :
        (L[k].k = "run" /\ \A j \in 1..k : L[j].k # "stop") =>
            \A p \in Positions(L[k].fn) :
                Body(L[k].fn)[p].op = "stmt" =>
                    \E j \in 1..(k - 1) :
                        L[j].k = "stmt" /\ L[j].fn = L[k].fn /\ L[j].at = p

\* No deferred function of a frame that is on the stack has run.
PendingNotRun(x) ==
    \A f \in 1..Len(x.Frames) :
        \A n \in 1..Len(x.Frames[f].defers) :
            \A k \in 1..Len(x.log) :
                ~(x.log[k].k = "run" /\ x.log[k].id = x.Frames[f].defers[n])

Cancelled(x) ==
    /\ x.stop
    /\ \E k \in 1..(Len(x.log) - 2) :
          /\ x.log[k].k = "yield"
          /\ x.log[k + 1].k = "stop"
          /\ x.log[k + 2].k = "resume"
          /\ \A m \in (k + 2)..Len(x.log) : x.log[m].k # "stop"

\* C8 as stated: once a coroutine that was stopped while suspended has been
\* resumed and control is back at the driver, the yield it attempted raised
\* the unwind sentinel, every frame was popped, every deferred action that
\* was registered has run and the stack is empty.
CancellationTearsDown ==
    \A c \in Ctxs :
        (Cancelled(ctx[c]) /\ Quiet(ctx[c])) =>
            /\ ctx[c].mode # "crashed"
            /\ ctx[c].Frames = <<>>
            /\ \A k \in 1..Len(ctx[c].log) :
                  ctx[c].log[k].k = "defer" =>
                      \E m \in (k + 1)..Len(ctx[c].log) :
                          ctx[c].log[m].k = "run" /\ ctx[c].log[m].id = ctx[c].log[k].id

\* ------------------------------------------------------- sharing of storage

\* The pointer reached from pointer p by following the pointers of the cells
\* k times.
RECURSIVE Follow(_, _, _)
Follow(next, p, k) == IF k = 0 \/ p = Nil THEN p ELSE Follow(next, next[p], k - 1)

\* Every pointer of the graph: a pointer of the root, or the pointer of a
\* cell reached from one.
PointerPaths == {"p1", "p2"} \X (0..Cardinality(CellAddrs))

SourcePointer(path) == Follow(serde.next, serde.root[path[1]], path[2])

RebuiltPointer(path) == Follow(serde.out.next, serde.out.root[path[1]], path[2])

\* The array of the rebuilt heap that the element at address ptr belongs to.
RebuiltArrayOf(ptr) ==
    CHOOSE k \in 1..Cardinality(Arrays) : ptr \in NewArray(k)..(NewArray(k + 1) - 1)

\* Pointers are equal after the round trip exactly when they were equal
\* before it, and point at the same values.
PointersShared ==
    \A x, y \in PointerPaths :
        /\ (SourcePointer(x) = SourcePointer(y)) <=> (RebuiltPointer(x) = RebuiltPointer(y))
        /\ (SourcePointer(x) = Nil) <=> (RebuiltPointer(x) = Nil)
        /\ SourcePointer(x) # Nil =>
              serde.out.val[RebuiltPointer(x)] = ValueAt(SourcePointer(x))

\* A slice has its length and capacity after the round trip, and its
\* elements up to the capacity.
SliceRebuilt(s, t) ==
    /\ t.len = s.len
    /\ t.cap = s.cap
    /\ (s.ptr = Nil) <=> (t.ptr = Nil)
    /\ \A i \in 0..(s.cap - 1) : serde.out.val[t.ptr + i] = ValueAt(s.ptr + i)

\* Two slices are over one array after the round trip exactly when they were
\* before it, and then at the same distance from each other.
SlicesShared(s1, s2, t1, t2) ==
    (s1.ptr # Nil /\ s2.ptr # Nil /\ t1.ptr # Nil /\ t2.ptr # Nil) =>
        IF ArrayOf(s1.ptr) = ArrayOf(s2.ptr)
        THEN /\ RebuiltArrayOf(t1.ptr) = RebuiltArrayOf(t2.ptr)
             /\ t1.ptr - t2.ptr = s1.ptr - s2.ptr
        ELSE RebuiltArrayOf(t1.ptr) # RebuiltArrayOf(t2.ptr)

\* C10: the graph rebuilt from the bytes of a graph shares storage as the
\* graph did: pointers that were equal by address are equal by address, two
\* slices that shared a backing array are over one array, and each slice has
\* its length, its capacity and its elements, those between the length and
\* the capacity included.
SharingPreserved ==
    serde.phase = "dst" =>
        /\ PointersShared
        /\ SliceRebuilt(serde.root.s1, serde.out.root.s1)
        /\ SliceRebuilt(serde.root.s2, serde.out.root.s2)
        /\ SlicesShared(serde.root.s1, serde.root.s2, serde.out.root.s1, serde.out.root.s2)
        /\ serde.out.sn = Len(serde.bytes)

\* C10 witness: both pointers of the root point at one cell that points at
\* itself; the second slice starts before the first one in the array they
\* share, and the first one has elements between its length and its capacity.
SharingPreservedWitness ==
    /\ serde.phase = "dst"
    /\ serde.root.p1 # Nil
    /\ serde.root.p2 = serde.root.p1
    /\ serde.next[serde.root.p1] = serde.root.p1
    /\ serde.out.root.p1 = serde.out.root.p2
    /\ serde.root.s1.ptr # Nil
    /\ serde.root.s2.ptr # Nil
    /\ ArrayOf(serde.root.s1.ptr) = ArrayOf(serde.root.s2.ptr)
    /\ serde.root.s2.ptr < serde.root.s1.ptr
    /\ serde.root.s1.len < serde.root.s1.cap
    /\ serde.root.s2.cap > serde.root.s2.len

\* ---------------------------------------------- mutation through a slice

\* C11 as stated: after the round trip of (s[0:3], s[1:4]), a value stored at
\* index 0 of the first slice is read at the last index of the second slice.
MutationSeenAtLast ==
    [][\A v \in Written :
          Mutate("s1", 0, v) =>
              ElementOf(serde'.out, "s2", serde.out.root.s2.len - 1) = v]_vars

\* C11: after the round trip of (s[0:3], s[1:4]), a value stored at index 1
\* of the first slice is read at index 0 of the second slice, and a value
\* stored at index 0 of the first slice changes no element of the second.
MutationSeenAtFirst ==
    [][\A v \in Written :
          /\ Mutate("s1", 1, v) => ElementOf(serde'.out, "s2", 0) = v
          /\ Mutate("s1", 0, v) =>
                \A j \in 0..(serde.out.root.s2.len - 1) :
                    ElementOf(serde'.out, "s2", j) = ElementOf(serde.out, "s2", j)]_vars

\* C11 witness: the rebuilt pair with a value stored through the first slice
\* at index 1 and another one at index 0.
MutationSeenWitness ==
    /\ serde.phase = "dst"
    /\ serde.root.s1 = ScenarioSlice(0, 3)
    /\ serde.root.s2 = ScenarioSlice(1, 4)
    /\ ElementOf(serde.out, "s1", 1) = 2
    /\ ElementOf(serde.out, "s2", 0) = 2
    /\ ElementOf(serde.out, "s1", 0) = 3
    /\ ElementOf(serde.out, "s2", 2) = ValueAt(ScenarioArray + 3)

\* ------------------------------------------------------------------ type ids

\* The id of a registered type is its position in the order of the first
\* registrations, counted from 0: distinct types have distinct ids.
IdsInRegistrationOrder ==
    /\ Len(types.custom) = Cardinality(DOMAIN types.serdes)
    /\ \A t \in DOMAIN types.serdes :
          /\ types.serdes[t].id \in 0..(Len(types.custom) - 1)
          /\ types.custom[types.serdes[t].id + 1] = t

\* A call of Register leaves the id of every registered type as it was, gives
\* a type that was not registered the next id, and replaces the callbacks of
\* the type it registers only.
IdsKept ==
    LET t == types'.last.t
    IN  /\ \A x \in DOMAIN types.serdes :
              /\ x \in DOMAIN types'.serdes
              /\ types'.serdes[x].id = types.serdes[x].id
              /\ x # t => types'.serdes[x] = types.serdes[x]
        /\ t \in DOMAIN types'.serdes
        /\ t \notin DOMAIN types.serdes =>
              types'.serdes[t].id = Cardinality(DOMAIN types.serdes)
        /\ types'.serdes[t].ser = Closure(types'.last.ser)
        /\ types'.serdes[t].des = Closure(types'.last.des)

\* C12: over any sequence of Register calls a type's id is the number of
\* distinct types registered before it and never changes; registering a type
\* again replaces its callbacks and leaves every id unchanged.
TypeIdsImmutable == []IdsInRegistrationOrder /\ [][IdsKept]_vars

\* C12 witness: T2 was registered first, T1 after it, and the last call
\* registered T2 again, with other callbacks than those of T1.
TypeIdsImmutableWitness ==
    /\ types.custom = <<"T2", "T1">>
    /\ types.last.t = "T2"
    /\ types.serdes["T2"].id = 0
    /\ types.serdes["T1"].id = 1
    /\ types.serdes["T1"].ser = Closure(Func("f"))
    /\ types.serdes["T2"].ser = Closure(Func("g"))

\* ---------------------------------------------------------- missing callback

\* The function of the caller that a registered function value ends up
\* calling.
CalledBy(fv) == IF fv.kind = "closure" THEN fv.calls ELSE fv

\* C13 as stated: a call of Register with a nil serializer or a nil
\* deserializer fails, and no registered type has a callback that is missing.
MissingCallbackRejected ==
    /\ (types.last.t # "" /\ (types.last.ser = NilFunc \/ types.last.des = NilFunc)) =>
          types.panic # "none"
    /\ \A t \in DOMAIN types.serdes :
          /\ CalledBy(types.serdes[t].ser) # NilFunc
          /\ CalledBy(types.serdes[t].des) # NilFunc

\* ------------------------------------------------------ call-graph coloring

\* What can be reached from the procedures of a set by at most n calls.
RECURSIVE Reaches(_, _, _)
Reaches(cg, from, n) ==
    IF n = 0 THEN from
    ELSE Reaches(cg, from \cup {e[2] : e \in {c \in cg : c[1] \in from}}, n - 1)

\* The instantiations of Yield that a procedure reaches through the calls.
YieldsReached(cg, f) == Reaches(cg, {f}, Cardinality(Funcs)) \cap Yields

\* The table of the colors was built.
Colored(b) == b.pc \notin {"off", "color"} /\ b.err # "MixedYieldTypes"

\* The declarations of a file that was written.
DeclsIn(file) == {file.decls[i] : i \in DOMAIN file.decls}

\* C14: once the table of the colors is built, a procedure is in it exactly
\* when it reaches an instantiation of Yield through the calls, with the
\* signature of that instantiation; the caller of a colored procedure has the
\* color of its callee; and a procedure that reaches no instantiation has no
\* color and is written as the source has it, in every file that holds it
\* and in the generated file of every package that was compiled.
ColoringExact ==
    Colored(build) =>
        /\ \A f \in Funcs :
              /\ f \in DOMAIN build.colors <=> YieldsReached(build.cg, f) # {}
              /\ f \in DOMAIN build.colors =>
                    \A y \in YieldsReached(build.cg, f) : build.colors[f] = Signature(y)
              /\ f \notin DOMAIN build.colors =>
                    /\ \A file \in build.files : \A d \in DeclsIn(file) :
                          d.fn = f => d = SourceDecl(build, f)
                    /\ PkgOf(f) \in build.compiled =>
                          \E file \in build.files :
                              /\ file.suffix = "_durable.go"
                              /\ SourceDecl(build, f) \in DeclsIn(file)
        /\ \A e \in build.cg :
              e[2] \in DOMAIN build.colors =>
                  /\ e[1] \in DOMAIN build.colors
                  /\ build.colors[e[1]] = build.colors[e[2]]

\* C14 witness: the compilation is done; P reaches Yield through Q only and
\* is compiled, U reaches none and is in the generated file as it was.
ColoringExactWitness ==
    /\ build.pc = "done"
    /\ build.cg \cap {<<"P", "U">>, <<"U", "Y2">>} = {<<"P", "U">>}
    /\ <<"P", "Q">> \in build.cg
    /\ "P" \in DOMAIN build.colors
    /\ \E file \in build.files :
          /\ file.pkg = "main"
          /\ file.suffix = "_durable.go"
          /\ file.decls[1].form = "coroutine"
          /\ file.decls[2] = SourceDecl(build, "U")

\* --------------------------------------------------------- mixed yield types

\* A procedure reaches two instantiations of Yield whose signatures differ.
ReachesMixed(cg) ==
    \E f \in Funcs : \E y1, y2 \in YieldsReached(cg, f) : Signature(y1) # Signature(y2)

\* C15: when a procedure of the program reaches two instantiations of Yield
\* with different signatures, the coloring fails with MixedYieldTypes, the
\* compilation ends with that error, and no file is written and no package
\* copied.
MixedYieldTypesRejected ==
    (build.pc \notin {"off", "color"} /\ ReachesMixed(build.cg)) =>
        /\ build.pc = "exit"
        /\ build.err = "MixedYieldTypes"
        /\ build.files = {}
        /\ build.vendored = {}

\* C15 witness: P reaches Yield[int, int] through Q and Yield[string, string]
\* through U, no other procedure reaches both, and the compilation has ended.
MixedYieldTypesRejectedWitness ==
    /\ build.pc = "exit"
    /\ build.err = "MixedYieldTypes"
    /\ build.cg = {<<"P", "Q">>, <<"Q", "Y1">>, <<"P", "U">>, <<"U", "Y2">>}
    /\ build.files = {}

\* ------------------------------------------------------ rejected constructs

\* The compilation of the package of a procedure was started: its file was
\* written again.
Started(b, f) == \E file \in b.files : file.pkg = PkgOf(f)

Unvendored(b) ==
    {PkgOf(f) : f \in DOMAIN b.colors} \cap
        {p \in Packages : b.dir[p] \in {"modcache", "nomodule"}}

\* C17: when a package with a colored procedure is outside the module and
\* outside the standard library, the compilation ends with
\* UnvendoredDependency once the packages are looked at, and nothing was
\* changed: no package of the standard library is copied and no file written.
UnvendoredRejected ==
    (build.pc \notin {"off", "color", "locate"} /\ Unvendored(build) # {}) =>
        /\ build.pc = "exit"
        /\ build.err = "UnvendoredDependency"
        /\ build.vendored = {}
        /\ build.files = {}

\* C17 witness: Q and R are colored, the package of Q is in the standard
\* library and that of R in the module cache; the compilation has ended with
\* the error and the package of Q was not copied.
UnvendoredRejectedWitness ==
    /\ build.pc = "exit"
    /\ build.err = "UnvendoredDependency"
    /\ {"Q", "R"} \subseteq DOMAIN build.colors
    /\ build.dir["lib"] = "goroot"
    /\ build.dir["dep"] = "modcache"
    /\ build.vendored = {}
    /\ build.files = {}

\* ----------------------------------------------------- append-only marshal

\* The buffer that MarshalAppend returned starts with the bytes it was given.
PrefixKept ==
    chain.phase # "none" =>
        /\ Len(chain.bytes) >= Len(chain.prefix)
        /\ SubSeq(chain.bytes, 1, Len(chain.prefix)) = chain.prefix

\* Unmarshal reads exactly the bytes that were appended, whatever follows
\* them, gives the target the frames that were marshalled and leaves its
\* recv, send, done and stop as they were.
ReadsBack ==
    (chain.phase = "appended" /\ chain'.phase = "read") =>
        LET c == chain'.target
        IN  /\ chain'.sn = Len(chain.bytes) - Len(chain.prefix)
            /\ ctx'[c].Frames = chain.frames
            /\ ctx'[c].recv = ctx[c].recv
            /\ ctx'[c].send = ctx[c].send
            /\ ctx'[c].done = ctx[c].done
            /\ ctx'[c].stop = ctx[c].stop

\* C18: MarshalAppend(b) returns a buffer that has b as its prefix, and
\* Unmarshal on the appended bytes followed by any bytes returns the number of
\* bytes appended and restores the frames, leaving recv, send, done and stop
\* of the target unchanged.
MarshalAppendOnly == []PrefixKept /\ [][ReadsBack]_vars

\* C18 witness: the Context of the coroutine suspended inside B was appended
\* to a buffer of two bytes and read back, with two bytes after it, into the
\* Context of a coroutine that had completed.
MarshalAppendOnlyWitness ==
    /\ chain.phase = "read"
    /\ chain.prefix = <<2, 0>>
    /\ chain.trailer = <<0, 255>>
    /\ chain.target = 2
    /\ Len(chain.frames) = 2
    /\ ctx[2].Frames = chain.frames
    /\ ctx[2].done
    /\ ctx[2].recv # Zero
    /\ chain.sn = Len(chain.bytes) - 2

\* ----------------------------------------------------- hoisted initializers

\* The last position of the entry of the statement that starts at position k
\* of the log: the position before the next call of the procedure.
EntryEnd(L, k) ==
    IF \E j \in (k + 1)..Len(L) : L[j] = "enter"
    THEN (CHOOSE j \in (k + 1)..Len(L) :
              L[j] = "enter" /\ \A m \in (k + 1)..(j - 1) : L[m] # "enter") - 1
    ELSE Len(L)

\* The positions of an event within an entry.
EventsIn(L, k, e) == {j \in k..EntryEnd(L, k) : L[j] = e}

\* The desugared statement has no init in its header; the init of the source
\* is the statement in front of it in a new block.
InitInFront ==
    hoist.mode # "off" =>
        /\ hoist.tree.stmt.init = "none"
        /\ hoist.tree.stmt.kind = hoist.src.kind
        /\ hoist.tree.block <=> hoist.src.init # "none"
        /\ hoist.tree.block => hoist.tree.list = <<hoist.src.init>>

\* Within an entry the init is executed at most once, and once the condition
\* or the tag has been evaluated it was executed exactly once, before the
\* first evaluation.
InitOncePerEntry ==
    \A k \in DOMAIN hoist.log :
        hoist.log[k] = "enter" =>
            LET inits == EventsIn(hoist.log, k, "init")
                conds == EventsIn(hoist.log, k, "cond")
            IN  /\ Cardinality(inits) <= 1
                /\ hoist.src.init = "none" => inits = {}
                /\ (hoist.src.init # "none" /\ conds # {}) =>
                      /\ Cardinality(inits) = 1
                      /\ \A i \in inits, c \in conds : i < c

\* C20: the init of an if, a for or a switch is moved in front of the
\* statement inside a new block, so that it is executed exactly once per
\* entry to the statement, before the first evaluation of the condition or
\* the tag, and not again on a later iteration or when the coroutine is
\* resumed inside the body.
InitHoisted == InitInFront /\ InitOncePerEntry

\* C20 witness: the loop with an init was suspended inside its body and
\* resumed, its condition was evaluated again, its post statement ran and a
\* second iteration started, with one init in the entry.
InitHoistedWitness ==
    /\ hoist.src = [kind |-> "for", init |-> "init"]
    /\ hoist.calls = 1
    /\ Cardinality(EventsIn(hoist.log, 1, "resume")) >= 1
    /\ Cardinality(EventsIn(hoist.log, 1, "post")) >= 1
    /\ Cardinality(EventsIn(hoist.log, 1, "cond")) >= 3
    /\ Cardinality(EventsIn(hoist.log, 1, "init")) = 1
    /\ hoist.log[2] = "init"

\* ------------------------------------------------------------------ C21

\* C21: a range over a map that binds the key or the value is split in two.
\* The keys the map holds at the entry of the loop are collected into a fresh
\* sequence, each key once, by a loop that does not yield. Then the body runs
\* at most once for each collected key, in the order of the collection, and
\* only for a key the map still holds when it is reached, with the value
\* looked up at that moment. A key inserted after the collection is never
\* visited, and after a suspension and a resumption the remaining iterations
\* go through the same sequence of keys, at the index that follows.
MapRangeSplit ==
    /\ mrange.pc \notin {"off", "collect"} =>
          /\ mrange.collected \in Orders(mrange.entry)
          /\ mrange.keys = mrange.collected
    /\ Len(mrange.log) <= Len(mrange.collected)
    /\ \A j \in 1..Len(mrange.log) :
          LET e == mrange.log[j]
          IN  /\ e.idx = j
              /\ e.k = mrange.collected[j]
              /\ e.ok <=> e.k \in DOMAIN e.at
              /\ e.ok => e.v = e.at[e.k]
              /\ e.ok => e.k \notin LateKeys
    /\ mrange.pc \in {"body", "yield", "post"} => Len(mrange.log) = mrange.i + 1
    /\ mrange.pc \in {"cond", "index", "end"} => Len(mrange.log) = mrange.i

\* A loop over three keys that ended after it was suspended and resumed
\* twice: a key deleted by the body was skipped, and a key inserted by the
\* body is in the map and was not visited.
MapRangeSplitWitness ==
    /\ mrange.mode = "done"
    /\ mrange.resumes >= 2
    /\ Len(mrange.log) = 3
    /\ \E j \in 1..3 : ~mrange.log[j].ok
    /\ \E k \in LateKeys : k \in DOMAIN mrange.m

\* ------------------------------------------------------------------ C22
\* C22: the indexed loop produced for a range over an array or a slice is
\* observably equivalent to the range statement of the source for every body
\* that does not yield: the range expression is evaluated once and the body
\* runs once for each index from 0 to len-1, in increasing order, with the key
\* equal to the index and the value equal to the element, also when the body
\* assigns to the key variable or executes continue or break.
RangeEquivalent ==
    /\ srange.pc = "end" => srange.log = rangeStmt(srange.x, srange.body)
    /\ srange.runs <= Len(srange.x)

\* The two loops agree for the bodies that do not assign to the key,
\* with continue and break among their statements.
RangeEquivalentKeyRead ==
    (\A p \in 1..Len(srange.body) : srange.body[p].op # "assign") =>
        RangeEquivalent

\* ------------------------------------------------------------------ C23
\* C23: after desugaring every break and continue carries a generated label,
\* and that label is on the statement the branch designated in the source:
\* the innermost loop or switch for a break without label, the innermost
\* loop, through the switches, for a continue without label, and for a branch
\* with a user label the statement the user label named. After the pass that
\* removes the unused labels every label a branch names is still defined, and
\* every label left is named by a branch.
LabelsKept ==
    labels.pc = "desugared" =>
        /\ labels.d.panic = ""
        /\ \A j \in 1..Len(labels.prog) :
              labels.prog[j].br.tok # "none" =>
                 LET b == labels.stmt[j].br
                     t == TargetOf(labels.prog, j)
                 IN  /\ b.tok = labels.prog[j].br.tok
                     /\ b.label \in {LabelName(n) : n \in 0..(labels.d.labels - 1)}
                     /\ t \in 1..j
                     /\ \A i \in 1..Len(labels.stmt) : labels.stmt[i].label = b.label <=> i = t
        /\ \A i \in 1..Len(labels.stmt) :
              labels.stmt[i].label # "" =>
                 \E j \in i..Len(labels.stmt) :
                    labels.stmt[j].br.tok # "none" /\ labels.stmt[j].br.label = labels.stmt[i].label

\* A loop with the user label L1 that holds a switch that holds an if
\* statement: the switch says break L1, the if statement says continue, both
\* name the label _l0 of the loop, and the label _l1 of the switch is removed.
LabelsKeptWitness ==
    /\ labels.pc = "desugared"
    /\ Len(labels.prog) = 3
    /\ labels.prog[1].kind = "range"
    /\ labels.prog[2].kind = "switch"
    /\ labels.prog[3].kind = "if"
    /\ labels.prog[2].br = [tok |-> "break", label |-> "L1"]
    /\ labels.prog[3].br = [tok |-> "continue", label |-> ""]
    /\ labels.stmt[2].br = [tok |-> "break", label |-> "_l0"]
    /\ labels.stmt[3].br = [tok |-> "continue", label |-> "_l0"]
    /\ labels.first[2].label = "_l1"
    /\ labels.stmt[2].label = ""
    /\ labels.stmt[1].label = "_l0"

\* ------------------------------------------------------------------ C24
\* The frame of the nearest transformed procedure among the executing ones:
\* its index in the stack, 0 when every executing procedure was left as it is.
NearestTransformed(x) ==
    LET T == {k \in 1..Len(x.cs) : ~isExpr(Body(x.cs[k].fn))}
    IN  IF T = {} THEN 0 ELSE x.cs[CHOOSE k \in T : \A j \in T : j <= k].f

\* C24: whenever Yield executes in a compiled coroutine the frame stack is
\* not empty, so that Top() is defined, and the top frame is the frame of the
\* nearest transformed caller; also when the procedure that calls Yield, the
\* entry procedure in particular, has a body that is a single expression
\* statement, is left untransformed and pushes no frame.
YieldHasFrame ==
    \A c \in Ctxs :
        ctx[c].mode = "yield56" =>
            /\ Len(ctx[c].Frames) > 0
            /\ NearestTransformed(ctx[c]) = Len(ctx[c].Frames)

\* Yield finds the frame of the transformed caller when there is one.
YieldHasFrameBelowCaller ==
    \A c \in Ctxs :
        ctx[c].mode = "yield56" /\ NearestTransformed(ctx[c]) # 0 =>
            NearestTransformed(ctx[c]) = Len(ctx[c].Frames)

\* ------------------------------------------------------------------ C25
\* Every frame that is on the stack while the coroutine is suspended was left
\* at a call that may yield, and the store in front of that call gave it an
\* IP of at least 1.
RetainedEntered ==
    \A c \in Ctxs :
        ctx[c].mode = "idle" /\ Unwinding(ctx[c]) =>
            \A k \in 1..Len(ctx[c].Frames) : ctx[c].Frames[k].IP >= 1

\* The prologue of a procedure that re-enters a retained frame leaves every
\* frame as it is; the prologue of a first entry assigns the initializer.
PrologueKeepsRetained ==
    \A c \in Ctxs :
        (/\ Running(ctx[c])
         /\ Act(ctx[c]).pc = 0
         /\ ~isExpr(Body(Act(ctx[c]).fn))
         /\ ctx'[c] # ctx[c]) =>
            IF ctx[c].FP < Len(ctx[c].Frames)
            THEN ctx'[c].Frames = ctx[c].Frames
            ELSE /\ Len(ctx'[c].Frames) = Len(ctx[c].Frames) + 1
                 /\ Top(ctx'[c]) = FrameInit(Act(ctx[c]).fn)

\* C25: every frame retained on the stack across a suspension has ip >= 1,
\* also when the call that yields is the first statement of its procedure;
\* so the test `ip == 0` of the prologue assigns the frame initializer on the
\* first entry of an invocation only, and never writes over the locals of a
\* frame that is being resumed.
RetainedFramesKeepLocals == []RetainedEntered /\ [][PrologueKeepsRetained]_vars

\* The coroutine was suspended in the yield that is the first statement of
\* E and was resumed: A and E re-entered their frames, the deferred function
\* that A had registered is still in its frame, and the yield returned.
RetainedFramesKeepLocalsWitness ==
    /\ Running(ctx[1])
    /\ Len(ctx[1].cs) = 2
    /\ Act(ctx[1]).fn = "E"
    /\ Act(ctx[1]).pc = 2
    /\ Here(ctx[1]).IP = 1
    /\ ctx[1].Frames[1].fn = "A"
    /\ ctx[1].Frames[1].IP = 2
    /\ ctx[1].Frames[1].defers = <<"DA">>
    /\ Here(ctx[1]).r \in Sends

=============================================================================
